---- MODULE Spec2Model ----
(***************************************************************************)
(* The in-memory ledger of internal/bank/bank.go (type Bank): the account  *)
(* map, the identifier counter, the mutex, and the operations Create, Get, *)
(* List, Deposit, Withdraw, Transfer, Logs, Snapshot and Restore.          *)
(*                                                                         *)
(* Spec       every method as one atomic step (each holds b.mu for its     *)
(*            whole body), called one after the other.                     *)
(* SpecRestore  Spec, with the caller keeping a snapshot and restoring it  *)
(*            into the same Bank or into a new one.                        *)
(* SpecConc   goroutines calling the methods concurrently, every statement *)
(*            of a method a step of its own, b.mu modelled explicitly.     *)
(* SpecTransfers, SpecDeposits  the goroutines of the two concurrency      *)
(*            tests of bank_test.go, with one concurrent reader.           *)
(*            tests of bank_test.go, with one concurrent reader.           *)
(*                                                                         *)
(* The HTTP layer of internal/server (handlers, router, response helpers), *)
(* the snapshot file of internal/storage/jsonstore.go and the wiring of    *)
(* cmd/server/main.go:                                                     *)
(*                                                                         *)
(* SpecHTTP   requests served one after another, a whole handler (bank     *)
(*            call, response, persist hook) as one step.                   *)
(* SpecHandlers  requests served by concurrent goroutines: each Bank call  *)
(*            and each file operation of SaveSnapshot a step of its own.   *)
(* SpecSave   concurrent SaveSnapshot calls on one path.                   *)
(***************************************************************************)
EXTENDS Integers, Sequences, FiniteSets, TLC

\* ------------------------------------------------------------------ bounds

\* int64 is modelled as a two's-complement integer of IntBits bits.
IntBits == 4
\* Create is not called once nextID has reached MaxIDs.
MaxIDs == 2
\* time.Now() is not called once the clock has reached MaxClock.
MaxClock == 2

\* ------------------------------------------------------------------ int64

RECURSIVE Pow2(_)
Pow2(n) == IF n = 0 THEN 1 ELSE 2 * Pow2(n - 1)

MaxInt64 == Pow2(IntBits - 1) - 1
MinInt64 == 0 - Pow2(IntBits - 1)

\* The result of an int64 addition or subtraction: Go wraps around.
Wrap64(x) == ((x - MinInt64) % Pow2(IntBits)) + MinInt64

\* ------------------------------------------------------------------ values

\* Go strings are sequences of one-character strings; "" is <<>>.
EmptyString == <<>>

DigitChar == <<"0", "1", "2", "3", "4", "5", "6", "7", "8", "9">>

RECURSIVE FormatDigits(_)
FormatDigits(n) ==
    IF n < 10 THEN <<DigitChar[n + 1]>>
    ELSE FormatDigits(n \div 10) \o <<DigitChar[(n % 10) + 1]>>

\* fmt.Sprintf("%d", id)
SprintfD(n) == IF n < 0 THEN <<"-">> \o FormatDigits(0 - n) ELSE FormatDigits(n)

ErrNil == "nil"
ErrNotFound == "account not found"
ErrBadAmount == "amount must be > 0"
ErrInsufficient == "insufficient balance"
ErrSameAccount == "from and to are same"

\* time.Time: the instant (wall) and whether a monotonic reading is attached.
ZeroTime == [wall |-> 0, hasMono |-> FALSE]
TimeAt(c) == [wall |-> c, hasMono |-> TRUE]
\* Time.Equal: the same instant, whatever the monotonic reading.
TimeEqual(t, u) == t.wall = u.wall

\* Log{Time, Amount, Direction, CounterID, Note}
Log(time, amt, dir, counter, note) ==
    [Time |-> time, Amount |-> amt, Direction |-> dir, CounterID |-> counter, Note |-> note]

\* Account{ID, Name, Balance} with Logs nil
Account(id, name, balance) ==
    [ID |-> id, Name |-> name, Balance |-> balance, Logs |-> <<>>]

\* No value (a nil pointer, a nil slice, no snapshot held).
Nil == [nil |-> TRUE]

\* ------------------------------------------------------------------ inputs

Names == {<<"A">>}
Balances == {0 - 1, 0, 1, MaxInt64}
Amounts == {0, 1, MaxInt64}

\* ------------------------------------------------------------------ state

VARIABLES
    nextID,     \* Bank.nextID
    accts,      \* Bank.accts: identifier -> Account
    clock,      \* the instant the next time.Now() returns
    snap,       \* the storage.Snapshot the caller holds (Nil: none)
    snapOf,     \* the ledger as it was when snap was taken (Nil: none)
    last,       \* the call that was made last, with what it returned
    issued,     \* the identifiers Create has returned so far
    issuedNow,  \* the identifiers Create has returned since the last Restore
    held,       \* a value an earlier call returned that the caller still holds (Nil: none)
    mu,         \* Bank.mu: the set of goroutines that hold it ({}: unlocked)
    pc,         \* per goroutine: where it is in its call
    call,       \* per goroutine: the call it makes
    loc,        \* per goroutine: the local variables of its call
    out,        \* per goroutine: what its call returned
    lin,        \* the ledger of the sequential execution the calls are compared with
    linOut,     \* per goroutine: what its call returns in the sequential execution
    bank0,      \* the ledger the goroutines started from (Nil: one caller)
    req,        \* the HTTP request that was served last (Nil: none)
    resp,       \* the response to it (Nil: none)
    persist,    \* Server.persist (Nil: no hook)
    calls,      \* the number of times the persist hook has been invoked
    fs          \* the directory of the data file: its names and their files

seqVars == <<nextID, accts, clock, snap, snapOf, last, issued, issuedNow, held>>
concVars == <<mu, pc, call, loc, out, lin, linOut, bank0>>
httpVars == <<req, resp, persist, calls, fs>>
vars == <<nextID, accts, clock, snap, snapOf, last, issued, issuedNow, held,
          mu, pc, call, loc, out, lin, linOut, bank0,
          req, resp, persist, calls, fs>>

\* The ledger is used without a server: no request, no hook, no file.
NoServer ==
    /\ req = Nil
    /\ resp = Nil
    /\ persist = Nil
    /\ calls = 0
    /\ fs = [node |-> <<>>, tmp |-> 0, path |-> 0]

\* An empty map.
EmptyMap == [id \in {} |-> Nil]

\* A map assignment that would leave k the only key.
MapPutAlone(m, k, v) == [x \in {k} |-> v]

\* m[k] = v of a Go map.
MapPut(m, k, v) == [x \in (DOMAIN m) \cup {k} |-> IF x = k THEN v ELSE m[x]]

\* ------------------------------------------------------------------ Bank
\* The methods of Bank as functions of the ledger b = [nextID, accts, clock]:
\* each returns the ledger after the call, the error and the value returned.

BankState(nid, ac, clk) == [nextID |-> nid, accts |-> ac, clock |-> clk]

Ret(b, err, res) == [b |-> b, err |-> err, res |-> res]

\* NewBank
NewBank == BankState(0, EmptyMap, 1)

\* newID: atomic.AddInt64(&b.nextID, 1), then fmt.Sprintf("%d", id).
newID(b) == SprintfD(Wrap64(b.nextID + 1))

\* Create as it would be if the counter were read and not advanced.
CreateKeepsCounter(b, name, balance) ==
    IF balance < 0 THEN Ret(b, ErrBadAmount, Nil)
    ELSE LET id == newID(b)
             a == Account(id, name, balance)
         IN  Ret([b EXCEPT !.accts = MapPut(b.accts, id, a)], ErrNil, a)

\* Create as it would be if a balance of 0 were refused too.
CreateRejectsZero(b, name, balance) ==
    IF balance <= 0 THEN Ret(b, ErrBadAmount, Nil)
    ELSE LET id == newID(b)
             a == Account(id, name, balance)
         IN  Ret([b EXCEPT !.nextID = Wrap64(b.nextID + 1),
                           !.accts = MapPut(b.accts, id, a)],
                 ErrNil, a)

\* Create
Create(b, name, balance) ==
    IF balance < 0 THEN Ret(b, ErrBadAmount, Nil)
    ELSE LET id == newID(b)
             a == Account(id, name, balance)
         IN  Ret([b EXCEPT !.nextID = Wrap64(b.nextID + 1),
                           !.accts = MapPut(b.accts, id, a)],
                 ErrNil, a)

\* Get
Get(b, id) ==
    IF id \notin DOMAIN b.accts THEN Ret(b, ErrNotFound, Nil)
    ELSE Ret(b, ErrNil, b.accts[id])

\* List; order is the order in which range visits the map.
List(b, order) == Ret(b, ErrNil, [i \in 1..Len(order) |-> b.accts[order[i]]])

\* Deposit
Deposit(b, id, amt) ==
    IF amt <= 0 THEN Ret(b, ErrBadAmount, Nil)
    ELSE IF id \notin DOMAIN b.accts THEN Ret(b, ErrNotFound, Nil)
    ELSE LET a == b.accts[id]
             cp == [a EXCEPT !.Balance = Wrap64(a.Balance + amt),
                             !.Logs = Append(a.Logs,
                                 Log(TimeAt(b.clock), amt, "in", EmptyString, <<"deposit">>))]
         IN  Ret([b EXCEPT !.accts[id] = cp, !.clock = b.clock + 1], ErrNil, cp)

\* Withdraw as it would be if the entry were put in front of the history.
WithdrawLogsInFront(b, id, amt) ==
    IF amt <= 0 THEN Ret(b, ErrBadAmount, Nil)
    ELSE IF id \notin DOMAIN b.accts THEN Ret(b, ErrNotFound, Nil)
    ELSE IF b.accts[id].Balance < amt THEN Ret(b, ErrInsufficient, Nil)
    ELSE LET a == b.accts[id]
             cp == [a EXCEPT !.Balance = Wrap64(a.Balance - amt),
                             !.Logs = <<Log(TimeAt(b.clock), amt, "out", EmptyString,
                                            <<"withdraw">>)>> \o a.Logs]
         IN  Ret([b EXCEPT !.accts[id] = cp, !.clock = b.clock + 1], ErrNil, cp)

\* Withdraw as it would be if the whole balance could not be taken out.
WithdrawKeepsOne(b, id, amt) ==
    IF amt <= 0 THEN Ret(b, ErrBadAmount, Nil)
    ELSE IF id \notin DOMAIN b.accts THEN Ret(b, ErrNotFound, Nil)
    ELSE IF b.accts[id].Balance <= amt THEN Ret(b, ErrInsufficient, Nil)
    ELSE LET a == b.accts[id]
             cp == [a EXCEPT !.Balance = Wrap64(a.Balance - amt),
                             !.Logs = Append(a.Logs,
                                 Log(TimeAt(b.clock), amt, "out", EmptyString, <<"withdraw">>))]
         IN  Ret([b EXCEPT !.accts[id] = cp, !.clock = b.clock + 1], ErrNil, cp)

\* Withdraw
Withdraw(b, id, amt) ==
    IF amt <= 0 THEN Ret(b, ErrBadAmount, Nil)
    ELSE IF id \notin DOMAIN b.accts THEN Ret(b, ErrNotFound, Nil)
    ELSE IF b.accts[id].Balance < amt THEN Ret(b, ErrInsufficient, Nil)
    ELSE LET a == b.accts[id]
             cp == [a EXCEPT !.Balance = Wrap64(a.Balance - amt),
                             !.Logs = Append(a.Logs,
                                 Log(TimeAt(b.clock), amt, "out", EmptyString, <<"withdraw">>))]
         IN  Ret([b EXCEPT !.accts[id] = cp, !.clock = b.clock + 1], ErrNil, cp)

\* Transfer as it would be if the source were debited before the destination
\* is looked up.
TransferDebitsFirst(b, fromID, toID, amt) ==
    IF amt <= 0 THEN Ret(b, ErrBadAmount, Nil)
    ELSE IF fromID = toID THEN Ret(b, ErrSameAccount, Nil)
    ELSE IF fromID \notin DOMAIN b.accts THEN Ret(b, ErrNotFound, Nil)
    ELSE IF b.accts[fromID].Balance < amt THEN Ret(b, ErrInsufficient, Nil)
    ELSE LET debited == [b EXCEPT !.accts[fromID].Balance = Wrap64(@ - amt)]
         IN  IF toID \notin DOMAIN b.accts THEN Ret(debited, ErrNotFound, Nil)
             ELSE LET now == TimeAt(b.clock)
                  IN  Ret([debited EXCEPT
                              !.accts[toID].Balance = Wrap64(@ + amt),
                              !.accts[fromID].Logs =
                                  Append(@, Log(now, amt, "out", toID, <<"transfer">>)),
                              !.accts[toID].Logs =
                                  Append(@, Log(now, amt, "in", fromID, <<"transfer">>)),
                              !.clock = b.clock + 1],
                          ErrNil, Nil)

\* Transfer as it would be if each entry were stamped with a time.Now() of its own.
TransferStampsTwice(b, fromID, toID, amt) ==
    IF amt <= 0 THEN Ret(b, ErrBadAmount, Nil)
    ELSE IF fromID = toID THEN Ret(b, ErrSameAccount, Nil)
    ELSE IF fromID \notin DOMAIN b.accts \/ toID \notin DOMAIN b.accts
         THEN Ret(b, ErrNotFound, Nil)
    ELSE IF b.accts[fromID].Balance < amt THEN Ret(b, ErrInsufficient, Nil)
    ELSE Ret([b EXCEPT
                 !.accts[fromID].Balance = Wrap64(@ - amt),
                 !.accts[toID].Balance = Wrap64(@ + amt),
                 !.accts[fromID].Logs =
                     Append(@, Log(TimeAt(b.clock), amt, "out", toID, <<"transfer">>)),
                 !.accts[toID].Logs =
                     Append(@, Log(TimeAt(b.clock + 1), amt, "in", fromID, <<"transfer">>)),
                 !.clock = b.clock + 2],
             ErrNil, Nil)

\* Transfer as it would be if fromID == toID were tested after the lookups.
TransferLooksUpFirst(b, fromID, toID, amt) ==
    IF amt <= 0 THEN Ret(b, ErrBadAmount, Nil)
    ELSE IF fromID \notin DOMAIN b.accts \/ toID \notin DOMAIN b.accts
         THEN Ret(b, ErrNotFound, Nil)
    ELSE IF fromID = toID THEN Ret(b, ErrSameAccount, Nil)
    ELSE IF b.accts[fromID].Balance < amt THEN Ret(b, ErrInsufficient, Nil)
    ELSE LET now == TimeAt(b.clock)
         IN  Ret([b EXCEPT
                     !.accts[fromID].Balance = Wrap64(@ - amt),
                     !.accts[toID].Balance = Wrap64(@ + amt),
                     !.accts[fromID].Logs =
                         Append(@, Log(now, amt, "out", toID, <<"transfer">>)),
                     !.accts[toID].Logs =
                         Append(@, Log(now, amt, "in", fromID, <<"transfer">>)),
                     !.clock = b.clock + 1],
                 ErrNil, Nil)

\* Transfer as it would be without the check that the two accounts differ.
TransferSkipsSameCheck(b, fromID, toID, amt) ==
    IF amt <= 0 THEN Ret(b, ErrBadAmount, Nil)
    ELSE IF fromID \notin DOMAIN b.accts \/ toID \notin DOMAIN b.accts
         THEN Ret(b, ErrNotFound, Nil)
    ELSE IF b.accts[fromID].Balance < amt THEN Ret(b, ErrInsufficient, Nil)
    ELSE LET from == b.accts[fromID]
             now == TimeAt(b.clock)
             from2 == [from EXCEPT !.Balance = Wrap64(from.Balance - amt),
                                   !.Logs = Append(from.Logs,
                                       Log(now, amt, "out", toID, <<"transfer">>))]
             b2 == [b EXCEPT !.accts[fromID] = from2]
             to == b2.accts[toID]
             to2 == [to EXCEPT !.Balance = Wrap64(to.Balance + amt),
                               !.Logs = Append(to.Logs,
                                   Log(now, amt, "in", fromID, <<"transfer">>))]
         IN  Ret([b2 EXCEPT !.accts[toID] = to2, !.clock = b.clock + 1],
                 ErrNil, Nil)

\* Transfer
Transfer(b, fromID, toID, amt) ==
    IF amt <= 0 THEN Ret(b, ErrBadAmount, Nil)
    ELSE IF fromID = toID THEN Ret(b, ErrSameAccount, Nil)
    ELSE IF fromID \notin DOMAIN b.accts \/ toID \notin DOMAIN b.accts
         THEN Ret(b, ErrNotFound, Nil)
    ELSE IF b.accts[fromID].Balance < amt THEN Ret(b, ErrInsufficient, Nil)
    ELSE LET from == b.accts[fromID]
             to == b.accts[toID]
             now == TimeAt(b.clock)
             from2 == [from EXCEPT !.Balance = Wrap64(from.Balance - amt),
                                   !.Logs = Append(from.Logs,
                                       Log(now, amt, "out", toID, <<"transfer">>))]
             to2 == [to EXCEPT !.Balance = Wrap64(to.Balance + amt),
                               !.Logs = Append(to.Logs,
                                   Log(now, amt, "in", fromID, <<"transfer">>))]
         IN  Ret([b EXCEPT !.accts[fromID] = from2, !.accts[toID] = to2,
                           !.clock = b.clock + 1],
                 ErrNil, Nil)

\* Logs
Logs(b, id) ==
    IF id \notin DOMAIN b.accts THEN Ret(b, ErrNotFound, Nil)
    ELSE Ret(b, ErrNil, b.accts[id].Logs)

\* toAnySlice: the same elements, boxed.
toAnySlice(in) == [i \in 1..Len(in) |-> in[i]]

\* storage.Meta as Snapshot fills it; Timestamp is left the zero time.
SnapshotMeta ==
    [Storage |-> "json_snapshot", Version |-> 1, Timestamp |-> ZeroTime,
     Note |-> "Can be replaced by database backend in the future."]

\* storage.PersistAccount
PersistAccount(a) ==
    [ID |-> a.ID, Name |-> a.Name, Balance |-> a.Balance, Logs |-> toAnySlice(a.Logs)]

\* Snapshot; order is the order in which range visits the map.
Snapshot(b, order) ==
    Ret(b, ErrNil,
        [Meta |-> SnapshotMeta, NextID |-> b.nextID,
         Accounts |-> [i \in 1..Len(order) |-> PersistAccount(b.accts[order[i]])]])

\* json.Marshal of a Log as it would be if CounterID were tagged json:"-".
MarshalLogNoCounter(l) ==
    [time |-> l.Time.wall, amount |-> l.Amount, direction |-> l.Direction,
     counter_account |-> EmptyString, note |-> l.Note]

\* json.Marshal of a Log: Time is written as RFC 3339 with nanoseconds, which
\* keeps the instant and drops the monotonic reading.
MarshalLog(l) ==
    [time |-> l.Time.wall, amount |-> l.Amount, direction |-> l.Direction,
     counter_account |-> l.CounterID, note |-> l.Note]

\* json.Unmarshal into a Log.
UnmarshalLog(j) ==
    Log([wall |-> j.time, hasMono |-> FALSE], j.amount, j.direction,
        j.counter_account, j.note)

\* The inner loop of Restore: every entry through json.Marshal and json.Unmarshal.
RestoreLogs(logs) == [i \in 1..Len(logs) |-> UnmarshalLog(MarshalLog(logs[i]))]

\* The outer loop of Restore over s.Accounts[i..]: later records overwrite.
RECURSIVE RestoreAccounts(_, _, _)
RestoreAccounts(ac, pas, i) ==
    IF i > Len(pas) THEN ac
    ELSE LET pa == pas[i]
             a == [ID |-> pa.ID, Name |-> pa.Name, Balance |-> pa.Balance,
                   Logs |-> RestoreLogs(pa.Logs)]
         IN  RestoreAccounts(MapPut(ac, a.ID, a), pas, i + 1)

\* Restore as it would be without b.accts = make(map[string]*Account).
RestoreKeepsAccounts(b, s) ==
    Ret([b EXCEPT !.nextID = s.NextID,
                  !.accts = RestoreAccounts(b.accts, s.Accounts, 1)],
        ErrNil, Nil)

\* Restore
Restore(b, s) ==
    Ret([b EXCEPT !.nextID = s.NextID,
                  !.accts = RestoreAccounts(EmptyMap, s.Accounts, 1)],
        ErrNil, Nil)

\* The orders in which range may visit the keys of a map.
Orders(m) ==
    {o \in [1..Cardinality(DOMAIN m) -> DOMAIN m] :
        \A i, j \in DOMAIN o : i # j => o[i] # o[j]}

\* ------------------------------------------------------------------ aliasing
\* What a returned value shares with the ledger. A value the caller holds is
\* [op, id, val, object, array]: the call that returned it, the account it is
\* of, the value as the caller reads it, whether it is the ledger's own
\* Account (the pointer stored in the map), and whether its Logs slice has the
\* backing array of the ledger's Logs slice.

\* Create, line 50: return a, the pointer it stored in b.accts.
CreateReturnsObject == TRUE

\* Get, List, Deposit, Withdraw: cp := *a copies the slice header of a.Logs,
\* so cp.Logs has a.Logs's backing array.
CopySharesLogs == TRUE

\* A Logs that returned a.Logs itself.
LogsReturnsSlice == TRUE

\* Logs, lines 156-157: out := make([]Log, len(a.Logs)); copy(out, a.Logs).
LogsSharesArray == FALSE

\* toAnySlice, lines 205-208: a new slice, each element a boxed copy.
SnapshotSharesArray == FALSE

Held(op, id, val, object, array) ==
    [op |-> op, id |-> id, val |-> val, object |-> object,
     array |-> array /\ Len(val.Logs) > 0]

\* The value h after the call c has left the accounts newAccts. Restore makes
\* new Accounts, so nothing is shared any more; the ledger's own Account reads
\* as the ledger has it; an append to a shared array either fits its capacity
\* or moves the ledger's slice to a new array.
Aliased(h, c, newAccts) ==
    IF h = Nil THEN {Nil}
    ELSE IF c.op = "Restore" THEN {[h EXCEPT !.object = FALSE, !.array = FALSE]}
    ELSE IF h.object THEN {[h EXCEPT !.val = newAccts[h.id]]}
    ELSE IF h.array /\ Len(newAccts[h.id].Logs) > Len(accts[h.id].Logs)
         THEN {h, [h EXCEPT !.array = FALSE]}
    ELSE {h}

\* ------------------------------------------------------------------ Spec
\* One caller: every method is one step.

Bank == BankState(nextID, accts, clock)

\* Identifiers a caller may pass: the ones the ledger holds and one that no
\* Create can have issued.
CallerIDs == (DOMAIN accts) \cup {SprintfD(MaxIDs + 1)}

Call(op, args) == [op |-> op, args |-> args]

\* The ledger becomes r.b, and the call and its result are recorded.
Returns(c, r) ==
    /\ nextID' = r.b.nextID
    /\ accts' = r.b.accts
    /\ clock' = r.b.clock
    /\ last' = [call |-> c, err |-> r.err, res |-> r.res]
    /\ held' \in Aliased(held, c, r.b.accts)
    /\ UNCHANGED <<concVars, httpVars>>

Init ==
    /\ nextID = NewBank.nextID
    /\ accts = NewBank.accts
    /\ clock = NewBank.clock
    /\ snap = Nil
    /\ snapOf = Nil
    /\ last = [call |-> Call("NewBank", <<>>), err |-> ErrNil, res |-> Nil]
    /\ issued = {}
    /\ issuedNow = {}
    /\ held = Nil
    /\ mu = {}
    /\ pc = <<>>
    /\ call = <<>>
    /\ loc = <<>>
    /\ out = <<>>
    /\ lin = Nil
    /\ linOut = <<>>
    /\ bank0 = Nil
    /\ NoServer

CallCreate ==
    \E name \in Names, balance \in Balances :
        /\ nextID < MaxIDs
        /\ LET r == Create(Bank, name, balance)
           IN  /\ Returns(Call("Create", <<name, balance>>), r)
               /\ issued' = IF r.err = ErrNil THEN issued \cup {r.res.ID} ELSE issued
               /\ issuedNow' = IF r.err = ErrNil THEN issuedNow \cup {r.res.ID} ELSE issuedNow
        /\ UNCHANGED <<snap, snapOf>>

CallGet ==
    \E id \in CallerIDs :
        /\ Returns(Call("Get", <<id>>), Get(Bank, id))
        /\ UNCHANGED <<snap, snapOf, issued, issuedNow>>

CallList ==
    \E order \in Orders(accts) :
        /\ Returns(Call("List", <<>>), List(Bank, order))
        /\ UNCHANGED <<snap, snapOf, issued, issuedNow>>

CallDeposit ==
    \E id \in CallerIDs, amt \in Amounts :
        /\ clock <= MaxClock
        /\ Returns(Call("Deposit", <<id, amt>>), Deposit(Bank, id, amt))
        /\ UNCHANGED <<snap, snapOf, issued, issuedNow>>

CallWithdraw ==
    \E id \in CallerIDs, amt \in Amounts :
        /\ clock <= MaxClock
        /\ Returns(Call("Withdraw", <<id, amt>>), Withdraw(Bank, id, amt))
        /\ UNCHANGED <<snap, snapOf, issued, issuedNow>>

CallTransfer ==
    \E fromID \in CallerIDs, toID \in CallerIDs, amt \in Amounts :
        /\ clock <= MaxClock
        /\ Returns(Call("Transfer", <<fromID, toID, amt>>), Transfer(Bank, fromID, toID, amt))
        /\ UNCHANGED <<snap, snapOf, issued, issuedNow>>

CallLogs ==
    \E id \in CallerIDs :
        /\ Returns(Call("Logs", <<id>>), Logs(Bank, id))
        /\ UNCHANGED <<snap, snapOf, issued, issuedNow>>

CallSnapshot ==
    \E order \in Orders(accts) :
        /\ Returns(Call("Snapshot", <<>>), Snapshot(Bank, order))
        /\ UNCHANGED <<snap, snapOf, issued, issuedNow>>

\* Snapshot, and the caller keeps what it returned.
KeepSnapshot ==
    \E order \in Orders(accts) :
        LET r == Snapshot(Bank, order)
        IN  /\ Returns(Call("Snapshot", <<>>), r)
            /\ snap' = r.res
            /\ snapOf' = Bank
            /\ UNCHANGED <<issued, issuedNow>>

\* Restore of the snapshot an earlier Snapshot returned.
CallRestore ==
    /\ snap # Nil
    /\ Returns(Call("Restore", <<snap>>), Restore(Bank, snap))
    /\ issuedNow' = {}
    /\ UNCHANGED <<snap, snapOf, issued>>

\* b2 := NewBank(); b2.Restore(snap): the second ledger is what the call leaves.
RestoreFresh ==
    /\ snap # Nil
    /\ last' = [call |-> Call("NewBank.Restore", <<snap>>), err |-> ErrNil,
                res |-> Restore(BankState(NewBank.nextID, NewBank.accts, clock), snap).b]
    /\ UNCHANGED <<nextID, accts, clock, snap, snapOf, issued, issuedNow, held>>
    /\ UNCHANGED <<concVars, httpVars>>

Next ==
    \/ CallCreate
    \/ CallGet
    \/ CallList
    \/ CallDeposit
    \/ CallWithdraw
    \/ CallTransfer
    \/ CallLogs
    \/ CallSnapshot

Spec == Init /\ [][Next]_vars

\* The same caller, who may also keep a snapshot and restore it later.
NextRestore ==
    \/ Next
    \/ KeepSnapshot
    \/ CallRestore
    \/ RestoreFresh

SpecRestore == Init /\ [][NextRestore]_vars

\* ------------------------------------------------------------------ SpecAlias
\* The caller of Spec, who may also keep one value a call returned and write
\* to it afterwards.

\* The values the caller writes.
Written == {0}

\* The call c returns r without error and the caller keeps h of it.
ReturnsKept(c, r, h) ==
    /\ held = Nil
    /\ r.err = ErrNil
    /\ nextID' = r.b.nextID
    /\ accts' = r.b.accts
    /\ clock' = r.b.clock
    /\ last' = [call |-> c, err |-> r.err, res |-> r.res]
    /\ held' = h
    /\ UNCHANGED <<snap, snapOf>>
    /\ UNCHANGED <<concVars, httpVars>>

\* a, _ := b.Create(name, balance)
KeepCreate ==
    \E name \in Names, balance \in Balances :
        /\ nextID < MaxIDs
        /\ LET r == Create(Bank, name, balance)
           IN  /\ ReturnsKept(Call("Create", <<name, balance>>), r,
                              Held("Create", r.res.ID, r.res, CreateReturnsObject,
                                   CreateReturnsObject))
               /\ issued' = issued \cup {r.res.ID}
               /\ issuedNow' = issuedNow \cup {r.res.ID}

\* a, _ := b.Get(id)
KeepGet ==
    \E id \in CallerIDs :
        LET r == Get(Bank, id)
        IN  /\ ReturnsKept(Call("Get", <<id>>), r,
                           Held("Get", id, r.res, FALSE, CopySharesLogs))
            /\ UNCHANGED <<issued, issuedNow>>

\* a := b.List()[i]
KeepListed ==
    \E order \in Orders(accts) :
        \E i \in 1..Len(order) :
            LET r == List(Bank, order)
            IN  /\ ReturnsKept(Call("List", <<>>), r,
                               Held("List", order[i], r.res[i], FALSE, CopySharesLogs))
                /\ UNCHANGED <<issued, issuedNow>>

\* a, _ := b.Deposit(id, amt)
KeepDeposit ==
    \E id \in CallerIDs, amt \in Amounts :
        /\ clock <= MaxClock
        /\ LET r == Deposit(Bank, id, amt)
           IN  ReturnsKept(Call("Deposit", <<id, amt>>), r,
                           Held("Deposit", id, r.res, FALSE, CopySharesLogs))
        /\ UNCHANGED <<issued, issuedNow>>

\* a, _ := b.Withdraw(id, amt)
KeepWithdraw ==
    \E id \in CallerIDs, amt \in Amounts :
        /\ clock <= MaxClock
        /\ LET r == Withdraw(Bank, id, amt)
           IN  ReturnsKept(Call("Withdraw", <<id, amt>>), r,
                           Held("Withdraw", id, r.res, FALSE, CopySharesLogs))
        /\ UNCHANGED <<issued, issuedNow>>

\* logs, _ := b.Logs(id)
KeepLogs ==
    \E id \in CallerIDs :
        LET r == Logs(Bank, id)
        IN  /\ ReturnsKept(Call("Logs", <<id>>), r,
                           Held("Logs", id, [Logs |-> r.res], FALSE, LogsSharesArray))
            /\ UNCHANGED <<issued, issuedNow>>

\* pa := b.Snapshot().Accounts[i]
KeepSnapshotted ==
    \E order \in Orders(accts) :
        \E i \in 1..Len(order) :
            LET r == Snapshot(Bank, order)
            IN  /\ ReturnsKept(Call("Snapshot", <<>>), r,
                               Held("Snapshot", order[i], r.res.Accounts[i], FALSE,
                                    SnapshotSharesArray))
                /\ UNCHANGED <<issued, issuedNow>>

\* The caller's a.Balance = v on the value it holds: a write to the ledger's
\* Account if that is what it holds.
WriteBalance ==
    /\ held # Nil
    /\ "Balance" \in DOMAIN held.val
    /\ \E v \in Written :
        /\ held' = [held EXCEPT !.val.Balance = v]
        /\ accts' = IF held.object THEN [accts EXCEPT ![held.id].Balance = v] ELSE accts
        /\ last' = [call |-> Call("write", <<"Balance", v>>), err |-> ErrNil, res |-> Nil]
    /\ UNCHANGED <<nextID, clock, snap, snapOf, issued, issuedNow>>
    /\ UNCHANGED <<concVars, httpVars>>

\* The caller's a.Logs[i].Amount = v on the value it holds: a write to the
\* ledger's history if the value has the ledger's backing array.
WriteEntry ==
    /\ held # Nil
    /\ \E i \in 1..Len(held.val.Logs), v \in Written :
        /\ held' = [held EXCEPT !.val.Logs[i].Amount = v]
        /\ accts' = IF held.object \/ held.array
                    THEN [accts EXCEPT ![held.id].Logs[i].Amount = v]
                    ELSE accts
        /\ last' = [call |-> Call("write", <<"Logs", i, v>>), err |-> ErrNil, res |-> Nil]
    /\ UNCHANGED <<nextID, clock, snap, snapOf, issued, issuedNow>>
    /\ UNCHANGED <<concVars, httpVars>>

NextAlias ==
    \/ Next
    \/ KeepCreate
    \/ KeepGet
    \/ KeepListed
    \/ KeepDeposit
    \/ KeepWithdraw
    \/ KeepLogs
    \/ KeepSnapshotted
    \/ WriteBalance
    \/ WriteEntry

SpecAlias == Init /\ [][NextAlias]_vars

\* ------------------------------------------------------------------ goroutines
\* Goroutines calling the methods at the same time. A call is a sequence of
\* steps, one per statement that reads or writes the ledger; pc says which is
\* next: "start", "lock" (at b.mu.Lock()), a statement of the body, "ret" (at
\* the return, where the deferred b.mu.Unlock() runs), "done".

Procs == DOMAIN pc

\* The local variables of a call: err and res are what it will return, id the
\* identifier newID gave, now the time.Now() it read, order the keys its range
\* has visited, i the index of its loop over a slice.
InitLoc ==
    [err |-> ErrNil, res |-> Nil, id |-> EmptyString, now |-> ZeroTime,
     order |-> <<>>, i |-> 1]

\* The call c as the sequential execution makes it on ledger b; order is the
\* order in which the goroutine's range visited the map.
SeqCall(c, b, order) ==
    CASE c.op = "Create" -> Create(b, c.args[1], c.args[2])
      [] c.op = "Get" -> Get(b, c.args[1])
      [] c.op = "List" -> List(b, order)
      [] c.op = "Deposit" -> Deposit(b, c.args[1], c.args[2])
      [] c.op = "Withdraw" -> Withdraw(b, c.args[1], c.args[2])
      [] c.op = "Transfer" -> Transfer(b, c.args[1], c.args[2], c.args[3])
      [] c.op = "Logs" -> Logs(b, c.args[1])
      [] c.op = "Snapshot" -> Snapshot(b, order)
      [] c.op = "Restore" -> Restore(b, c.args[1])

\* The first statement after b.mu.Lock().
FirstLabel(op) ==
    CASE op = "Create" -> "Create.newID"
      [] op = "Get" -> "Get.lookup"
      [] op = "List" -> "List.range"
      [] op = "Deposit" -> "Deposit.lookup"
      [] op = "Withdraw" -> "Withdraw.lookup"
      [] op = "Transfer" -> "Transfer.lookup"
      [] op = "Logs" -> "Logs.lookup"
      [] op = "Snapshot" -> "Snapshot.init"
      [] op = "Restore" -> "Restore.nextID"

\* Goroutine p goes on to label with locals l; the caller's variables, the
\* mutex and the sequential execution stay as they are.
Step(p, label, l) ==
    /\ pc' = [pc EXCEPT ![p] = label]
    /\ loc' = [loc EXCEPT ![p] = l]
    /\ UNCHANGED <<snap, snapOf, last, issued, issuedNow, held, mu, call, out, lin,
                   linOut, bank0, httpVars>>

\* Goroutine p returns err before b.mu.Lock(): the call takes effect here.
ReturnEarly(p, err) ==
    LET r == SeqCall(call[p], lin, <<>>)
    IN  /\ pc' = [pc EXCEPT ![p] = "done"]
        /\ out' = [out EXCEPT ![p] = [err |-> err, res |-> Nil]]
        /\ lin' = r.b
        /\ linOut' = [linOut EXCEPT ![p] = [err |-> r.err, res |-> r.res]]
        /\ UNCHANGED <<nextID, accts, clock, snap, snapOf, last, issued, issuedNow, held,
                       mu, call, loc, bank0, httpVars>>

\* A Lock that returns at once, whoever holds the mutex.
LockNeverWaits == TRUE

\* sync.Mutex: Lock returns only when no goroutine holds the mutex.
CanLock == mu = {}

\* b.mu.Lock()
Lock(p) ==
    /\ pc[p] = "lock"
    /\ CanLock
    /\ mu' = {p}
    /\ pc' = [pc EXCEPT ![p] = FirstLabel(call[p].op)]
    /\ UNCHANGED <<nextID, accts, clock, snap, snapOf, last, issued, issuedNow, held,
                   call, loc, out, lin, linOut, bank0, httpVars>>

\* A return as it would be without the deferred b.mu.Unlock().
ReturnKeepsLock(p) ==
    /\ pc[p] = "ret"
    /\ LET r == SeqCall(call[p], lin, loc[p].order)
       IN  /\ mu' = mu
           /\ pc' = [pc EXCEPT ![p] = "done"]
           /\ out' = [out EXCEPT ![p] = [err |-> loc[p].err, res |-> loc[p].res]]
           /\ lin' = r.b
           /\ linOut' = [linOut EXCEPT ![p] = [err |-> r.err, res |-> r.res]]
    /\ UNCHANGED <<nextID, accts, clock, snap, snapOf, last, issued, issuedNow, held,
                   call, loc, bank0, httpVars>>

\* return, with the deferred b.mu.Unlock(): the call takes effect here.
Return(p) ==
    /\ pc[p] = "ret"
    /\ LET r == SeqCall(call[p], lin, loc[p].order)
       IN  /\ mu' = {}
           /\ pc' = [pc EXCEPT ![p] = "done"]
           /\ out' = [out EXCEPT ![p] = [err |-> loc[p].err, res |-> loc[p].res]]
           /\ lin' = r.b
           /\ linOut' = [linOut EXCEPT ![p] = [err |-> r.err, res |-> r.res]]
    /\ UNCHANGED <<nextID, accts, clock, snap, snapOf, last, issued, issuedNow, held,
                   call, loc, bank0, httpVars>>

At(p, op, label) == pc[p] = label /\ call[p].op = op

\* Create, line 42: if balance < 0
CreateCheck(p) ==
    /\ At(p, "Create", "start")
    /\ IF call[p].args[2] < 0 THEN ReturnEarly(p, ErrBadAmount)
       ELSE Step(p, "lock", loc[p]) /\ UNCHANGED <<nextID, accts, clock>>

\* Create, line 47: id := b.newID()
CreateNewID(p) ==
    /\ At(p, "Create", "Create.newID")
    /\ nextID' = Wrap64(nextID + 1)
    /\ Step(p, "Create.insert", [loc[p] EXCEPT !.id = SprintfD(nextID')])
    /\ UNCHANGED <<accts, clock>>

\* Create, lines 48-50: a := &Account{...}; b.accts[id] = a; return a, nil
CreateInsert(p) ==
    /\ At(p, "Create", "Create.insert")
    /\ LET a == Account(loc[p].id, call[p].args[1], call[p].args[2])
       IN  /\ accts' = MapPut(accts, loc[p].id, a)
           /\ Step(p, "ret", [loc[p] EXCEPT !.res = a])
    /\ UNCHANGED <<nextID, clock>>

\* Get has no check before the lock.
GetCall(p) ==
    /\ At(p, "Get", "start")
    /\ Step(p, "lock", loc[p])
    /\ UNCHANGED <<nextID, accts, clock>>

\* Get, lines 58-63: a, ok := b.accts[id]; cp := *a
GetLookup(p) ==
    /\ At(p, "Get", "Get.lookup")
    /\ IF call[p].args[1] \notin DOMAIN accts
       THEN Step(p, "ret", [loc[p] EXCEPT !.err = ErrNotFound])
       ELSE Step(p, "ret", [loc[p] EXCEPT !.res = accts[call[p].args[1]]])
    /\ UNCHANGED <<nextID, accts, clock>>

\* List has no check before the lock.
ListCall(p) ==
    /\ At(p, "List", "start")
    /\ Step(p, "lock", [loc[p] EXCEPT !.res = <<>>])
    /\ UNCHANGED <<nextID, accts, clock>>

\* List, lines 71-75: one iteration of the range over b.accts, or its end.
ListRange(p) ==
    /\ At(p, "List", "List.range")
    /\ LET left == (DOMAIN accts) \ {loc[p].order[i] : i \in DOMAIN loc[p].order}
       IN  IF left = {} THEN Step(p, "ret", loc[p])
           ELSE \E k \in left :
                   Step(p, "List.range",
                        [loc[p] EXCEPT !.order = Append(@, k),
                                       !.res = Append(@, accts[k])])
    /\ UNCHANGED <<nextID, accts, clock>>

\* Deposit, line 81: if amt <= 0
DepositCheck(p) ==
    /\ At(p, "Deposit", "start")
    /\ IF call[p].args[2] <= 0 THEN ReturnEarly(p, ErrBadAmount)
       ELSE Step(p, "lock", loc[p]) /\ UNCHANGED <<nextID, accts, clock>>

\* Deposit, lines 86-89: a, ok := b.accts[id]
DepositLookup(p) ==
    /\ At(p, "Deposit", "Deposit.lookup")
    /\ IF call[p].args[1] \notin DOMAIN accts
       THEN Step(p, "ret", [loc[p] EXCEPT !.err = ErrNotFound])
       ELSE Step(p, "Deposit.add", loc[p])
    /\ UNCHANGED <<nextID, accts, clock>>

\* Deposit, line 90: a.Balance += amt
DepositAdd(p) ==
    /\ At(p, "Deposit", "Deposit.add")
    /\ accts' = [accts EXCEPT ![call[p].args[1]].Balance = Wrap64(@ + call[p].args[2])]
    /\ Step(p, "Deposit.log", loc[p])
    /\ UNCHANGED <<nextID, clock>>

\* Deposit, line 91: a.Logs = append(a.Logs, Log{Time: time.Now(), ...})
DepositLog(p) ==
    /\ At(p, "Deposit", "Deposit.log")
    /\ accts' = [accts EXCEPT ![call[p].args[1]].Logs =
                    Append(@, Log(TimeAt(clock), call[p].args[2], "in", EmptyString,
                                  <<"deposit">>))]
    /\ clock' = clock + 1
    /\ Step(p, "Deposit.copy", loc[p])
    /\ UNCHANGED nextID

\* Deposit, lines 92-93: cp := *a; return &cp, nil
DepositCopy(p) ==
    /\ At(p, "Deposit", "Deposit.copy")
    /\ Step(p, "ret", [loc[p] EXCEPT !.res = accts[call[p].args[1]]])
    /\ UNCHANGED <<nextID, accts, clock>>

\* Withdraw, line 99: if amt <= 0
WithdrawCheck(p) ==
    /\ At(p, "Withdraw", "start")
    /\ IF call[p].args[2] <= 0 THEN ReturnEarly(p, ErrBadAmount)
       ELSE Step(p, "lock", loc[p]) /\ UNCHANGED <<nextID, accts, clock>>

\* Withdraw, lines 104-110: a, ok := b.accts[id]; if a.Balance < amt
WithdrawLookup(p) ==
    /\ At(p, "Withdraw", "Withdraw.lookup")
    /\ IF call[p].args[1] \notin DOMAIN accts
       THEN Step(p, "ret", [loc[p] EXCEPT !.err = ErrNotFound])
       ELSE IF accts[call[p].args[1]].Balance < call[p].args[2]
       THEN Step(p, "ret", [loc[p] EXCEPT !.err = ErrInsufficient])
       ELSE Step(p, "Withdraw.sub", loc[p])
    /\ UNCHANGED <<nextID, accts, clock>>

\* Withdraw, line 111: a.Balance -= amt
WithdrawSub(p) ==
    /\ At(p, "Withdraw", "Withdraw.sub")
    /\ accts' = [accts EXCEPT ![call[p].args[1]].Balance = Wrap64(@ - call[p].args[2])]
    /\ Step(p, "Withdraw.log", loc[p])
    /\ UNCHANGED <<nextID, clock>>

\* Withdraw, line 112: a.Logs = append(a.Logs, Log{Time: time.Now(), ...})
WithdrawLog(p) ==
    /\ At(p, "Withdraw", "Withdraw.log")
    /\ accts' = [accts EXCEPT ![call[p].args[1]].Logs =
                    Append(@, Log(TimeAt(clock), call[p].args[2], "out", EmptyString,
                                  <<"withdraw">>))]
    /\ clock' = clock + 1
    /\ Step(p, "Withdraw.copy", loc[p])
    /\ UNCHANGED nextID

\* Withdraw, lines 113-114: cp := *a; return &cp, nil
WithdrawCopy(p) ==
    /\ At(p, "Withdraw", "Withdraw.copy")
    /\ Step(p, "ret", [loc[p] EXCEPT !.res = accts[call[p].args[1]]])
    /\ UNCHANGED <<nextID, accts, clock>>

\* Transfer, lines 121-126: if amt <= 0; if fromID == toID
TransferCheck(p) ==
    /\ At(p, "Transfer", "start")
    /\ IF call[p].args[3] <= 0 THEN ReturnEarly(p, ErrBadAmount)
       ELSE IF call[p].args[1] = call[p].args[2] THEN ReturnEarly(p, ErrSameAccount)
       ELSE Step(p, "lock", loc[p]) /\ UNCHANGED <<nextID, accts, clock>>

\* Transfer, lines 130-137: the two lookups and the balance check
TransferLookup(p) ==
    /\ At(p, "Transfer", "Transfer.lookup")
    /\ IF call[p].args[1] \notin DOMAIN accts \/ call[p].args[2] \notin DOMAIN accts
       THEN Step(p, "ret", [loc[p] EXCEPT !.err = ErrNotFound])
       ELSE IF accts[call[p].args[1]].Balance < call[p].args[3]
       THEN Step(p, "ret", [loc[p] EXCEPT !.err = ErrInsufficient])
       ELSE Step(p, "Transfer.debit", loc[p])
    /\ UNCHANGED <<nextID, accts, clock>>

\* Transfer, line 139: from.Balance -= amt
TransferDebit(p) ==
    /\ At(p, "Transfer", "Transfer.debit")
    /\ accts' = [accts EXCEPT ![call[p].args[1]].Balance = Wrap64(@ - call[p].args[3])]
    /\ Step(p, "Transfer.credit", loc[p])
    /\ UNCHANGED <<nextID, clock>>

\* Transfer, line 140: to.Balance += amt
TransferCredit(p) ==
    /\ At(p, "Transfer", "Transfer.credit")
    /\ accts' = [accts EXCEPT ![call[p].args[2]].Balance = Wrap64(@ + call[p].args[3])]
    /\ Step(p, "Transfer.now", loc[p])
    /\ UNCHANGED <<nextID, clock>>

\* Transfer, line 142: now := time.Now()
TransferNow(p) ==
    /\ At(p, "Transfer", "Transfer.now")
    /\ clock' = clock + 1
    /\ Step(p, "Transfer.logFrom", [loc[p] EXCEPT !.now = TimeAt(clock)])
    /\ UNCHANGED <<nextID, accts>>

\* Transfer, line 143: from.Logs = append(from.Logs, Log{...})
TransferLogFrom(p) ==
    /\ At(p, "Transfer", "Transfer.logFrom")
    /\ accts' = [accts EXCEPT ![call[p].args[1]].Logs =
                    Append(@, Log(loc[p].now, call[p].args[3], "out", call[p].args[2],
                                  <<"transfer">>))]
    /\ Step(p, "Transfer.logTo", loc[p])
    /\ UNCHANGED <<nextID, clock>>

\* Transfer, lines 144-145: to.Logs = append(to.Logs, Log{...}); return nil
TransferLogTo(p) ==
    /\ At(p, "Transfer", "Transfer.logTo")
    /\ accts' = [accts EXCEPT ![call[p].args[2]].Logs =
                    Append(@, Log(loc[p].now, call[p].args[3], "in", call[p].args[1],
                                  <<"transfer">>))]
    /\ Step(p, "ret", loc[p])
    /\ UNCHANGED <<nextID, clock>>

\* Logs has no check before the lock.
LogsCall(p) ==
    /\ At(p, "Logs", "start")
    /\ Step(p, "lock", loc[p])
    /\ UNCHANGED <<nextID, accts, clock>>

\* Logs, lines 152-158: a, ok := b.accts[id]; copy(out, a.Logs)
LogsLookup(p) ==
    /\ At(p, "Logs", "Logs.lookup")
    /\ IF call[p].args[1] \notin DOMAIN accts
       THEN Step(p, "ret", [loc[p] EXCEPT !.err = ErrNotFound])
       ELSE Step(p, "ret", [loc[p] EXCEPT !.res = accts[call[p].args[1]].Logs])
    /\ UNCHANGED <<nextID, accts, clock>>

\* Snapshot has no check before the lock.
SnapshotCall(p) ==
    /\ At(p, "Snapshot", "start")
    /\ Step(p, "lock", loc[p])
    /\ UNCHANGED <<nextID, accts, clock>>

\* Snapshot, lines 167-174: s := storage.Snapshot{Meta: ..., NextID: b.nextID}
SnapshotInit(p) ==
    /\ At(p, "Snapshot", "Snapshot.init")
    /\ Step(p, "Snapshot.range",
            [loc[p] EXCEPT !.res = [Meta |-> SnapshotMeta, NextID |-> nextID,
                                    Accounts |-> <<>>]])
    /\ UNCHANGED <<nextID, accts, clock>>

\* Snapshot, lines 175-180: one iteration of the range over b.accts, or its end.
SnapshotRange(p) ==
    /\ At(p, "Snapshot", "Snapshot.range")
    /\ LET left == (DOMAIN accts) \ {loc[p].order[i] : i \in DOMAIN loc[p].order}
       IN  IF left = {} THEN Step(p, "ret", loc[p])
           ELSE \E k \in left :
                   Step(p, "Snapshot.range",
                        [loc[p] EXCEPT !.order = Append(@, k),
                                       !.res.Accounts = Append(@, PersistAccount(accts[k]))])
    /\ UNCHANGED <<nextID, accts, clock>>

\* Restore has no check before the lock.
RestoreCall(p) ==
    /\ At(p, "Restore", "start")
    /\ Step(p, "lock", loc[p])
    /\ UNCHANGED <<nextID, accts, clock>>

\* Restore, line 188: b.nextID = s.NextID
RestoreNextID(p) ==
    /\ At(p, "Restore", "Restore.nextID")
    /\ nextID' = call[p].args[1].NextID
    /\ Step(p, "Restore.make", loc[p])
    /\ UNCHANGED <<accts, clock>>

\* Restore, line 189: b.accts = make(map[string]*Account)
RestoreMake(p) ==
    /\ At(p, "Restore", "Restore.make")
    /\ accts' = EmptyMap
    /\ Step(p, "Restore.range", loc[p])
    /\ UNCHANGED <<nextID, clock>>

\* Restore, lines 190-199: one iteration of the loop over s.Accounts, or its end.
RestoreRange(p) ==
    /\ At(p, "Restore", "Restore.range")
    /\ LET pas == call[p].args[1].Accounts
           i == loc[p].i
       IN  IF i > Len(pas) THEN Step(p, "ret", loc[p]) /\ UNCHANGED accts
           ELSE /\ accts' = MapPut(accts, pas[i].ID,
                                   [ID |-> pas[i].ID, Name |-> pas[i].Name,
                                    Balance |-> pas[i].Balance,
                                    Logs |-> RestoreLogs(pas[i].Logs)])
                /\ Step(p, "Restore.range", [loc[p] EXCEPT !.i = i + 1])
    /\ UNCHANGED <<nextID, clock>>

CreateSteps(p) == CreateCheck(p) \/ CreateNewID(p) \/ CreateInsert(p)
GetSteps(p) == GetCall(p) \/ GetLookup(p)
ListSteps(p) == ListCall(p) \/ ListRange(p)
DepositSteps(p) ==
    DepositCheck(p) \/ DepositLookup(p) \/ DepositAdd(p) \/ DepositLog(p) \/ DepositCopy(p)
WithdrawSteps(p) ==
    WithdrawCheck(p) \/ WithdrawLookup(p) \/ WithdrawSub(p) \/ WithdrawLog(p) \/ WithdrawCopy(p)
TransferSteps(p) ==
    \/ TransferCheck(p) \/ TransferLookup(p) \/ TransferDebit(p) \/ TransferCredit(p)
    \/ TransferNow(p) \/ TransferLogFrom(p) \/ TransferLogTo(p)
LogsSteps(p) == LogsCall(p) \/ LogsLookup(p)
SnapshotSteps(p) == SnapshotCall(p) \/ SnapshotInit(p) \/ SnapshotRange(p)
RestoreSteps(p) == RestoreCall(p) \/ RestoreNextID(p) \/ RestoreMake(p) \/ RestoreRange(p)

\* The ledger after Create("A", x) and Create("A", y) on a new Bank.
TwoAccounts(x, y) == Create(Create(NewBank, <<"A">>, x).b, <<"A">>, y).b

\* n goroutines about to make the calls cs on the ledger b0, of which the
\* caller has taken a snapshot.
InitGoroutines(b0, cs) ==
    /\ nextID = b0.nextID
    /\ accts = b0.accts
    /\ clock = b0.clock
    /\ snap = Snapshot(b0, <<SprintfD(1), SprintfD(2)>>).res
    /\ snapOf = b0
    /\ last = [call |-> Call("Snapshot", <<>>), err |-> ErrNil, res |-> snap]
    /\ issued = DOMAIN b0.accts
    /\ issuedNow = DOMAIN b0.accts
    /\ held = Nil
    /\ mu = {}
    /\ pc = [p \in DOMAIN cs |-> "start"]
    /\ call = cs
    /\ loc = [p \in DOMAIN cs |-> InitLoc]
    /\ out = [p \in DOMAIN cs |-> Nil]
    /\ lin = b0
    /\ linOut = [p \in DOMAIN cs |-> Nil]
    /\ bank0 = b0
    /\ NoServer

\* ------------------------------------------------------------------ SpecConc
\* NProcs goroutines, each making one call, any call, on a ledger of two accounts.

NProcs == 2

ConcIDs == {SprintfD(n) : n \in 1..3}

ConcCalls(s) ==
    {Call("Create", <<n, x>>) : n \in Names, x \in Balances}
    \cup {Call("Get", <<id>>) : id \in ConcIDs}
    \cup {Call("List", <<>>)}
    \cup {Call("Deposit", <<id, amt>>) : id \in ConcIDs, amt \in Amounts}
    \cup {Call("Withdraw", <<id, amt>>) : id \in ConcIDs, amt \in Amounts}
    \cup {Call("Transfer", <<f, t, amt>>) : f \in ConcIDs, t \in ConcIDs, amt \in Amounts}
    \cup {Call("Logs", <<id>>) : id \in ConcIDs}
    \cup {Call("Snapshot", <<>>)}
    \cup {Call("Restore", <<s>>)}

InitConc ==
    \E x \in {1}, y \in {1, MaxInt64} :
        LET b0 == TwoAccounts(x, y)
        IN  \E cs \in [1..NProcs -> ConcCalls(Snapshot(b0, <<SprintfD(1), SprintfD(2)>>).res)] :
                InitGoroutines(b0, cs)

\* A step of goroutine p.
Goroutine(p) ==
    \/ Lock(p)
    \/ Return(p)
    \/ CreateSteps(p)
    \/ GetSteps(p)
    \/ ListSteps(p)
    \/ DepositSteps(p)
    \/ WithdrawSteps(p)
    \/ TransferSteps(p)
    \/ LogsSteps(p)
    \/ SnapshotSteps(p)
    \/ RestoreSteps(p)

NextConc == \E p \in 1..NProcs : Goroutine(p)

SpecConc == InitConc /\ [][NextConc]_vars

\* SpecConc under the Go scheduler, which lets every goroutine that can take
\* a step take one, and hands a free mutex to a goroutine that waits for it.
SpecConcFair == SpecConc /\ \A p \in 1..NProcs : WF_vars(Goroutine(p))

\* ------------------------------------------------------------------ SpecTransfers
\* TestConcurrentTransfersAtomicity: NTransfers goroutines transfer 1 from
\* account "1" to account "2" while NTransfers goroutines transfer 1 back, and
\* one more goroutine reads the ledger with List.

NTransfers == 2

TransferProcs == 1..(2 * NTransfers)
ListProc == 2 * NTransfers + 1

TransferCalls ==
    [p \in 1..ListProc |->
        IF p <= NTransfers THEN Call("Transfer", <<SprintfD(1), SprintfD(2), 1>>)
        ELSE IF p <= 2 * NTransfers THEN Call("Transfer", <<SprintfD(2), SprintfD(1), 1>>)
        ELSE Call("List", <<>>)]

InitTransfers ==
    \E x \in {NTransfers, MaxInt64}, y \in {NTransfers, MaxInt64} :
        InitGoroutines(TwoAccounts(x, y), TransferCalls)

NextTransfers ==
    \E p \in 1..ListProc :
        \/ Lock(p)
        \/ Return(p)
        \/ TransferSteps(p)
        \/ ListSteps(p)

SpecTransfers == InitTransfers /\ [][NextTransfers]_vars

\* ------------------------------------------------------------------ SpecDeposits
\* TestConcurrentDepositsRaceSafety: NDeposits goroutines deposit the same
\* amount into account "1", and one more goroutine reads the account with Get.

NDeposits == 3

DepositProcs == 1..NDeposits
GetProc == NDeposits + 1

DepositCalls(amt) ==
    [p \in 1..GetProc |->
        IF p <= NDeposits THEN Call("Deposit", <<SprintfD(1), amt>>)
        ELSE Call("Get", <<SprintfD(1)>>)]

InitDeposits ==
    \E x \in {0, 1, MaxInt64 - 1}, amt \in {1, 2} :
        InitGoroutines(TwoAccounts(x, 0), DepositCalls(amt))

NextDeposits ==
    \E p \in 1..GetProc :
        \/ Lock(p)
        \/ Return(p)
        \/ DepositSteps(p)
        \/ GetSteps(p)

SpecDeposits == InitDeposits /\ [][NextDeposits]_vars

\* ------------------------------------------------------------------ SpecObservers
\* A transfer of 1 from account "1" to account "2" and one back, while one
\* goroutine calls List and one calls Snapshot.

ObserverCalls ==
    <<Call("Transfer", <<SprintfD(1), SprintfD(2), 1>>),
      Call("Transfer", <<SprintfD(2), SprintfD(1), 1>>),
      Call("List", <<>>),
      Call("Snapshot", <<>>)>>

InitObservers ==
    \E x \in {1, MaxInt64}, y \in {1, MaxInt64} :
        InitGoroutines(TwoAccounts(x, y), ObserverCalls)

NextObservers ==
    \E p \in DOMAIN ObserverCalls :
        \/ Lock(p)
        \/ Return(p)
        \/ TransferSteps(p)
        \/ ListSteps(p)
        \/ SnapshotSteps(p)

SpecObservers == InitObservers /\ [][NextObservers]_vars

\* ------------------------------------------------------------------ storage
\* The directory that holds the data file, as SaveSnapshot uses it. fs.node
\* is the files there have been, by number; fs.tmp and fs.path are the
\* numbers of the files now named path + ".tmp" and path (NoFile: no file of
\* that name). A file is a sequence of tokens. A file that has lost its name
\* can be reached through no name any more, and its content is not kept.

NoFile == 0

NoFiles == [node |-> <<>>, tmp |-> NoFile, path |-> NoFile]

\* os.Create(tmp): the file named tmp is truncated if there is one and made
\* if there is none; fd is the file the descriptor is open on.
OsCreate(f) ==
    IF f.tmp = NoFile
    THEN [f |-> [f EXCEPT !.node = Append(@, <<>>), !.tmp = Len(f.node) + 1],
          fd |-> Len(f.node) + 1]
    ELSE [f |-> [f EXCEPT !.node[f.tmp] = <<>>], fd |-> f.tmp]

\* The first Write on a descriptor: data goes over the file from offset 0.
FileWrite(f, fd, data) ==
    IF fd \in {f.tmp, f.path}
    THEN [f EXCEPT !.node[fd] = data \o SubSeq(@, Len(data) + 1, Len(@))]
    ELSE f

ErrNoSuchFile == "no such file or directory"

\* os.Rename(tmp, path): the file named tmp takes the name path, and the file
\* that had it loses it.
OsRename(f) ==
    IF f.tmp = NoFile THEN [f |-> f, err |-> ErrNoSuchFile]
    ELSE LET g == IF f.path = NoFile THEN f ELSE [f EXCEPT !.node[f.path] = <<>>]
         IN  [f |-> [g EXCEPT !.path = f.tmp, !.tmp = NoFile], err |-> ErrNil]

\* SaveSnapshot, lines 170-171: the copy of snap that is written.
SaveForm(s, now) ==
    [s EXCEPT !.Meta.Storage = "json_snapshot", !.Meta.Timestamp = now]

\* json.Encoder.Encode of a Log inside a PersistAccount.
EncodeLog(l) ==
    LET j == MarshalLog(l)
    IN  <<<<"{">>, SprintfD(j.time), SprintfD(j.amount), <<j.direction>>,
          j.counter_account, j.note, <<"}">>>>

RECURSIVE EncodeLogs(_, _)
EncodeLogs(logs, i) ==
    IF i > Len(logs) THEN <<>> ELSE EncodeLog(logs[i]) \o EncodeLogs(logs, i + 1)

RECURSIVE EncodeAccounts(_, _)
EncodeAccounts(pas, i) ==
    IF i > Len(pas) THEN <<>>
    ELSE <<<<"{">>, pas[i].ID, pas[i].Name, SprintfD(pas[i].Balance), <<"[">>>>
         \o EncodeLogs(pas[i].Logs, 1)
         \o <<<<"]">>, <<"}">>>>
         \o EncodeAccounts(pas, i + 1)

\* enc.Encode(snap): the tokens of the JSON text, which ends with a newline.
EncodeSnapshot(s) ==
    <<<<"{">>, <<"{">>, <<s.Meta.Storage>>, SprintfD(s.Meta.Version),
      SprintfD(s.Meta.Timestamp.wall), <<s.Meta.Note>>, <<"}">>,
      SprintfD(s.NextID), <<"[">>>>
    \o EncodeAccounts(s.Accounts, 1)
    \o <<<<"]">>, <<"}">>, <<"\n">>>>

\* SaveSnapshot when nothing runs beside it: create, encode, close, rename.
SaveSnapshot(f, s, now) ==
    LET c == OsCreate(f)
        w == FileWrite(c.f, c.fd, EncodeSnapshot(SaveForm(s, now)))
    IN  OsRename(w)

\* ------------------------------------------------------------------ server
\* The HTTP layer. A server is [Bank, persist, calls, fs]: the ledger, the
\* hook, and what the hook has done so far (how often it was invoked, and the
\* directory of the data file). A request is [method, route, parts, body]:
\* route is the pattern of the mux that matches its path, parts what follows
\* "/accounts/" split at "/", body the values of the members of its JSON body
\* (BadJSON: a body that does not decode). A handler returns
\* [sv, code, ctype, body].

\* The hook main gives the server.
Hook == [nil |-> FALSE]

NewServer(b, hook) == [Bank |-> b, persist |-> hook, calls |-> 0, fs |-> NoFiles]

BadJSON == <<>>
DecodeError == "invalid character"

\* json.NewDecoder(r.Body).Decode(&req), for the three request structs.
DecodeFails(body) == Len(body) = 0
DecodeAccountReq(body) == [Name |-> body[1], Balance |-> body[2]]
DecodeAmountReq(body) == [Amount |-> body[1]]
DecodeTransferReq(body) == [From |-> body[1], To |-> body[2], Amount |-> body[3]]

StatusOK == 200
StatusCreated == 201
StatusBadRequest == 400
StatusNotFound == 404
StatusMethodNotAllowed == 405
StatusConflict == 409

\* http.Error(w, text, code)
HttpError(sv, text, code) ==
    [sv |-> sv, code |-> code, ctype |-> "text/plain", body |-> text]

\* writeErr: the error's text under the code the handler gives.
writeErr(sv, err, code) == HttpError(sv, err, code)

\* writeJSON
writeJSON(sv, code, v) ==
    [sv |-> sv, code |-> code, ctype |-> "application/json", body |-> v]

\* The order in which range visits the map m, when order is the order in
\* which it would visit every key there can be.
RangeOrder(order, m) == SelectSeq(order, LAMBDA k : k \in DOMAIN m)

\* The orders in which range may visit the keys there can be.
AllOrders ==
    {o \in [1..MaxIDs -> {SprintfD(n) : n \in 1..MaxIDs}] :
        \A i, j \in 1..MaxIDs : i # j => o[i] # o[j]}

\* main's persist: storage.SaveSnapshot(dataFile, b.Snapshot())
PersistHook(sv, order) ==
    LET s == Snapshot(sv.Bank, RangeOrder(order, sv.Bank.accts)).res
    IN  [sv EXCEPT !.fs = SaveSnapshot(sv.fs, s, TimeAt(sv.Bank.clock)).f,
                   !.calls = @ + 1]

\* The hook invoked twice where the handlers invoke it once.
PersistTwice(sv, order) ==
    IF sv.persist # Nil THEN PersistHook(PersistHook(sv, order), order) ELSE sv

\* if s.persist != nil { _ = s.persist() }
PersistIfSet(sv, order) ==
    IF sv.persist # Nil THEN PersistHook(sv, order) ELSE sv

\* The response r has been written; then the hook.
ThenPersist(r, order) == [r EXCEPT !.sv = PersistIfSet(r.sv, order)]

\* accounts: POST /accounts and GET /accounts
accounts(sv, r, order) ==
    IF r.method = "POST"
    THEN IF DecodeFails(r.body) THEN writeErr(sv, DecodeError, StatusBadRequest)
         ELSE LET q == DecodeAccountReq(r.body)
                  c == Create(sv.Bank, q.Name, q.Balance)
              IN  IF c.err # ErrNil THEN writeErr(sv, c.err, StatusBadRequest)
                  ELSE ThenPersist(writeJSON([sv EXCEPT !.Bank = c.b], StatusCreated, c.res),
                                   order)
    ELSE IF r.method = "GET"
    THEN writeJSON(sv, StatusOK, List(sv.Bank, RangeOrder(order, sv.Bank.accts)).res)
    ELSE HttpError(sv, "method not allowed", StatusMethodNotAllowed)

\* accountSubroutes: GET /accounts/{id}, POST /accounts/{id}/deposit,
\* POST /accounts/{id}/withdraw, GET /accounts/{id}/logs
accountSubroutes(sv, r, order) ==
    IF Len(r.parts) = 0 \/ r.parts[1] = EmptyString
    THEN HttpError(sv, "404 page not found", StatusNotFound)
    ELSE LET id == r.parts[1]
         IN  IF Len(r.parts) = 1
             THEN IF r.method # "GET"
                  THEN HttpError(sv, "method not allowed", StatusMethodNotAllowed)
                  ELSE LET c == Get(sv.Bank, id)
                       IN  IF c.err # ErrNil THEN writeErr(sv, c.err, StatusNotFound)
                           ELSE writeJSON(sv, StatusOK, c.res)
             ELSE IF r.parts[2] = "deposit"
             THEN IF r.method # "POST"
                  THEN HttpError(sv, "method not allowed", StatusMethodNotAllowed)
                  ELSE IF DecodeFails(r.body)
                  THEN writeErr(sv, DecodeError, StatusBadRequest)
                  ELSE LET c == Deposit(sv.Bank, id, DecodeAmountReq(r.body).Amount)
                       IN  IF c.err # ErrNil
                           THEN writeErr(sv, c.err, StatusBadRequest)
                           ELSE ThenPersist(writeJSON([sv EXCEPT !.Bank = c.b],
                                                      StatusOK, c.res), order)
             ELSE IF r.parts[2] = "withdraw"
             THEN IF r.method # "POST"
                  THEN HttpError(sv, "method not allowed", StatusMethodNotAllowed)
                  ELSE IF DecodeFails(r.body)
                  THEN writeErr(sv, DecodeError, StatusBadRequest)
                  ELSE LET c == Withdraw(sv.Bank, id, DecodeAmountReq(r.body).Amount)
                       IN  IF c.err # ErrNil
                           THEN writeErr(sv, c.err, StatusBadRequest)
                           ELSE ThenPersist(writeJSON([sv EXCEPT !.Bank = c.b],
                                                      StatusOK, c.res), order)
             ELSE IF r.parts[2] = "logs"
             THEN IF r.method # "GET"
                  THEN HttpError(sv, "method not allowed", StatusMethodNotAllowed)
                  ELSE LET c == Logs(sv.Bank, id)
                       IN  IF c.err # ErrNil THEN writeErr(sv, c.err, StatusNotFound)
                           ELSE writeJSON(sv, StatusOK, c.res)
             ELSE HttpError(sv, "404 page not found", StatusNotFound)

\* transfer, lines 343-347: the code for a Transfer that failed.
TransferErrorCode(err) ==
    IF err = ErrInsufficient THEN StatusConflict ELSE StatusBadRequest

\* transfer: POST /transfer
transfer(sv, r, order) ==
    IF r.method # "POST"
    THEN HttpError(sv, "method not allowed", StatusMethodNotAllowed)
    ELSE IF DecodeFails(r.body) THEN writeErr(sv, DecodeError, StatusBadRequest)
    ELSE LET q == DecodeTransferReq(r.body)
             c == Transfer(sv.Bank, q.From, q.To, q.Amount)
         IN  IF c.err # ErrNil THEN writeErr(sv, c.err, TransferErrorCode(c.err))
             ELSE LET fromAcc == Get(c.b, q.From).res
                      toAcc == Get(c.b, q.To).res
                  IN  ThenPersist(
                          writeJSON([sv EXCEPT !.Bank = c.b], StatusOK,
                                    [message |-> "transfer success",
                                     from |-> fromAcc, to |-> toAcc]),
                          order)

\* health: GET /health (any method)
health(sv, r) == writeJSON(sv, StatusOK, [status |-> "ok"])

\* Router: the handler the mux gives the request to.
Router(sv, r, order) ==
    CASE r.route = "/health" -> health(sv, r)
      [] r.route = "/accounts" -> accounts(sv, r, order)
      [] r.route = "/accounts/" -> accountSubroutes(sv, r, order)
      [] r.route = "/transfer" -> transfer(sv, r, order)

\* ------------------------------------------------------------------ SpecHTTP
\* One client sends requests, one after another, to the server main builds on
\* a new ledger with no data file (or to a server built without a hook).

Methods == {"GET", "POST", "DELETE"}

\* What the client puts in its bodies.
HTTPBalances == {0 - 1, 0, 1}
HTTPAmounts == {0, 1}

Request(method, route, parts, body) ==
    [method |-> method, route |-> route, parts |-> parts, body |-> body]

Server == [Bank |-> Bank, persist |-> persist, calls |-> calls, fs |-> fs]

InitHTTP ==
    /\ nextID = NewBank.nextID
    /\ accts = NewBank.accts
    /\ clock = NewBank.clock
    /\ snap = Nil
    /\ snapOf = Nil
    /\ last = [call |-> Call("NewBank", <<>>), err |-> ErrNil, res |-> Nil]
    /\ issued = {}
    /\ issuedNow = {}
    /\ held = Nil
    /\ mu = {}
    /\ pc = <<>>
    /\ call = <<>>
    /\ loc = <<>>
    /\ out = <<>>
    /\ lin = Nil
    /\ linOut = <<>>
    /\ bank0 = Nil
    /\ req = Nil
    /\ resp = Nil
    /\ \E hook \in {Nil, Hook} :
          LET sv == NewServer(NewBank, hook)
          IN  /\ persist = sv.persist
              /\ calls = sv.calls
              /\ fs = sv.fs

\* The server serves the request: the whole handler, its hook included.
Serve(method, route, parts, body) ==
    \E order \in AllOrders :
        LET r == Request(method, route, parts, body)
            x == Router(Server, r, order)
        IN  /\ nextID' = x.sv.Bank.nextID
            /\ accts' = x.sv.Bank.accts
            /\ clock' = x.sv.Bank.clock
            /\ req' = r
            /\ resp' = [code |-> x.code, ctype |-> x.ctype, body |-> x.body]
            /\ persist' = x.sv.persist
            /\ calls' = x.sv.calls
            /\ fs' = x.sv.fs
            /\ UNCHANGED <<snap, snapOf, last, issued, issuedNow, held>>
            /\ UNCHANGED concVars

ServeHealth ==
    \E method \in {"GET", "POST"} : Serve(method, "/health", <<>>, BadJSON)

ServeAccounts ==
    \E method \in Methods :
        \E body \in {BadJSON} \cup {<<n, x>> : n \in Names, x \in HTTPBalances} :
            /\ nextID < MaxIDs
            /\ Serve(method, "/accounts", <<>>, body)

SubrouteParts ==
    {<<EmptyString>>}
    \cup {<<id>> : id \in CallerIDs}
    \cup {<<id, sub>> : id \in CallerIDs, sub \in {"deposit", "withdraw", "logs", "close"}}

ServeAccountSubroutes ==
    \E method \in {"GET", "POST"}, parts \in SubrouteParts :
        \E body \in {BadJSON} \cup {<<amt>> : amt \in HTTPAmounts} :
            /\ clock <= MaxClock
            /\ Serve(method, "/accounts/", parts, body)

ServeTransfer ==
    \E method \in {"GET", "POST"} :
        \E body \in {BadJSON}
                    \cup {<<f, t, amt>> : f \in CallerIDs, t \in CallerIDs, amt \in HTTPAmounts} :
            /\ clock <= MaxClock
            /\ Serve(method, "/transfer", <<>>, body)

NextHTTP ==
    \/ ServeHealth
    \/ ServeAccounts
    \/ ServeAccountSubroutes
    \/ ServeTransfer

SpecHTTP == InitHTTP /\ [][NextHTTP]_vars

\* ------------------------------------------------------------------ handler goroutines
\* net/http runs every request in a goroutine of its own. What is shared is
\* the ledger, which every Bank method reads and writes as a whole under
\* b.mu, and the directory of the data file, which SaveSnapshot works on with
\* no lock held. A goroutine's steps are therefore: its call of a Bank method,
\* and each file operation of SaveSnapshot. Its locals: snap (the snapshot to
\* save), fd (the file its descriptor is open on), fromAcc and toAcc (what the
\* transfer handler reads back), before (the two balances' sum at the moment
\* the Transfer was made).

HandlerLoc ==
    [snap |-> Nil, fd |-> NoFile, fromAcc |-> Nil, toAcc |-> Nil, before |-> 0]

Response(x) == [code |-> x.code, ctype |-> x.ctype, body |-> x.body]

\* Goroutine p goes on to label with locals l, having written o so far.
HandlerStep(p, label, l, o) ==
    /\ pc' = [pc EXCEPT ![p] = label]
    /\ loc' = [loc EXCEPT ![p] = l]
    /\ out' = [out EXCEPT ![p] = o]
    /\ UNCHANGED <<snap, snapOf, last, issued, issuedNow, held, mu, call, lin, linOut,
                   bank0, req, resp, persist>>

IsDeposit(r) == r.route = "/accounts/" /\ Len(r.parts) = 2 /\ r.parts[2] = "deposit"
IsWithdraw(r) == r.route = "/accounts/" /\ Len(r.parts) = 2 /\ r.parts[2] = "withdraw"
IsTransfer(r) == r.route = "/transfer"

\* accountSubroutes, deposit: s.Bank.Deposit, then writeErr or writeJSON.
HandleDeposit(p) ==
    /\ pc[p] = "start"
    /\ IsDeposit(call[p])
    /\ LET c == Deposit(Bank, call[p].parts[1], DecodeAmountReq(call[p].body).Amount)
       IN  /\ nextID' = c.b.nextID
           /\ accts' = c.b.accts
           /\ clock' = c.b.clock
           /\ IF c.err # ErrNil
              THEN HandlerStep(p, "done", loc[p],
                               Response(writeErr(Server, c.err, StatusBadRequest)))
              ELSE HandlerStep(p, "persist", loc[p],
                               Response(writeJSON(Server, StatusOK, c.res)))
    /\ UNCHANGED <<calls, fs>>

\* accountSubroutes, withdraw: s.Bank.Withdraw, then writeErr or writeJSON.
HandleWithdraw(p) ==
    /\ pc[p] = "start"
    /\ IsWithdraw(call[p])
    /\ LET c == Withdraw(Bank, call[p].parts[1], DecodeAmountReq(call[p].body).Amount)
       IN  /\ nextID' = c.b.nextID
           /\ accts' = c.b.accts
           /\ clock' = c.b.clock
           /\ IF c.err # ErrNil
              THEN HandlerStep(p, "done", loc[p],
                               Response(writeErr(Server, c.err, StatusBadRequest)))
              ELSE HandlerStep(p, "persist", loc[p],
                               Response(writeJSON(Server, StatusOK, c.res)))
    /\ UNCHANGED <<calls, fs>>

\* transfer: s.Bank.Transfer, and writeErr if it failed.
HandleTransfer(p) ==
    /\ pc[p] = "start"
    /\ IsTransfer(call[p])
    /\ LET q == DecodeTransferReq(call[p].body)
           c == Transfer(Bank, q.From, q.To, q.Amount)
       IN  /\ nextID' = c.b.nextID
           /\ accts' = c.b.accts
           /\ clock' = c.b.clock
           /\ IF c.err # ErrNil
              THEN HandlerStep(p, "done", loc[p],
                               Response(writeErr(Server, c.err, TransferErrorCode(c.err))))
              ELSE HandlerStep(p, "Transfer.getFrom",
                               [loc[p] EXCEPT !.before = accts[q.From].Balance
                                                         + accts[q.To].Balance],
                               out[p])
    /\ UNCHANGED <<calls, fs>>

\* transfer: fromAcc, _ := s.Bank.Get(req.From)
TransferGetFrom(p) ==
    /\ pc[p] = "Transfer.getFrom"
    /\ HandlerStep(p, "Transfer.getTo",
                   [loc[p] EXCEPT !.fromAcc = Get(Bank, DecodeTransferReq(call[p].body).From).res],
                   out[p])
    /\ UNCHANGED <<nextID, accts, clock, calls, fs>>

\* transfer: toAcc, _ := s.Bank.Get(req.To), and the response is written.
TransferGetTo(p) ==
    /\ pc[p] = "Transfer.getTo"
    /\ LET toAcc == Get(Bank, DecodeTransferReq(call[p].body).To).res
       IN  HandlerStep(p, "persist", [loc[p] EXCEPT !.toAcc = toAcc],
                       Response(writeJSON(Server, StatusOK,
                                          [message |-> "transfer success",
                                           from |-> loc[p].fromAcc, to |-> toAcc])))
    /\ UNCHANGED <<nextID, accts, clock, calls, fs>>

\* if s.persist != nil { _ = s.persist() }: the hook is entered, and
\* b.Snapshot() gives it the snapshot to save.
HandlerPersist(p) ==
    /\ pc[p] = "persist"
    /\ IF persist = Nil
       THEN HandlerStep(p, "done", loc[p], out[p]) /\ UNCHANGED calls
       ELSE /\ calls' = calls + 1
            /\ \E order \in Orders(accts) :
                  HandlerStep(p, "Save.create",
                              [loc[p] EXCEPT !.snap = Snapshot(Bank, order).res], out[p])
    /\ UNCHANGED <<nextID, accts, clock, fs>>

\* SaveSnapshot, lines 170-175: Meta is filled in and tmp is created.
SaveCreate(p) ==
    /\ pc[p] = "Save.create"
    /\ LET c == OsCreate(fs)
       IN  /\ fs' = c.f
           /\ HandlerStep(p, "Save.encode",
                          [loc[p] EXCEPT !.snap = SaveForm(loc[p].snap, TimeAt(clock)),
                                         !.fd = c.fd],
                          out[p])
    /\ UNCHANGED <<nextID, accts, clock, calls>>

\* SaveSnapshot, line 181: enc.Encode(snap) writes the whole text.
SaveEncode(p) ==
    /\ pc[p] = "Save.encode"
    /\ fs' = FileWrite(fs, loc[p].fd, EncodeSnapshot(loc[p].snap))
    /\ HandlerStep(p, "Save.rename", loc[p], out[p])
    /\ UNCHANGED <<nextID, accts, clock, calls>>

ErrShortWrite == "short write"

\* SaveSnapshot, lines 181-186: the write stops midway; Encode returns the
\* error, the file is closed and SaveSnapshot returns.
SaveEncodeFails(p) ==
    /\ pc[p] = "Save.encode"
    /\ LET data == EncodeSnapshot(loc[p].snap)
       IN  \E k \in 0..(Len(data) - 1) :
               fs' = FileWrite(fs, loc[p].fd, SubSeq(data, 1, k))
    /\ HandlerStep(p, "done", loc[p], [err |-> ErrShortWrite])
    /\ UNCHANGED <<nextID, accts, clock, calls>>

\* What a goroutine that is done has written: a handler has written its
\* response before the hook ran; a bare SaveSnapshot returns its error.
AfterSave(p, err) == IF out[p] = Nil THEN [err |-> err] ELSE out[p]

\* SaveSnapshot, lines 187-190: f.Close(); return os.Rename(tmp, path)
SaveRename(p) ==
    /\ pc[p] = "Save.rename"
    /\ LET r == OsRename(fs)
       IN  /\ fs' = r.f
           /\ HandlerStep(p, "done", loc[p], AfterSave(p, r.err))
    /\ UNCHANGED <<nextID, accts, clock, calls>>

Handler(p) ==
    \/ HandleDeposit(p)
    \/ HandleWithdraw(p)
    \/ HandleTransfer(p)
    \/ TransferGetFrom(p)
    \/ TransferGetTo(p)
    \/ HandlerPersist(p)
    \/ SaveCreate(p)
    \/ SaveEncode(p)
    \/ SaveRename(p)

\* ------------------------------------------------------------------ SpecHandlers
\* The server of main after two accounts were created over HTTP, and
\* NHandlers requests that arrive together.

NHandlers == 2

\* The server after POST /accounts {"A", 1} twice.
ServerWithTwoAccounts(order) ==
    LET create == Request("POST", "/accounts", <<>>, <<<<"A">>, 1>>)
        sv1 == accounts(NewServer(NewBank, Hook), create, order).sv
    IN  accounts(sv1, create, order).sv

HandlerRequests ==
    {Request("POST", "/accounts/", <<SprintfD(n), "deposit">>, <<1>>) : n \in 1..2}
    \cup {Request("POST", "/accounts/", <<SprintfD(1), "withdraw">>, <<1>>)}
    \cup {Request("POST", "/transfer", <<>>, <<SprintfD(1), SprintfD(2), 1>>),
          Request("POST", "/transfer", <<>>, <<SprintfD(2), SprintfD(1), 1>>)}

\* The goroutines cs on the server sv, whose data file holds what old says
\* (Nil: the server never saved).
InitServer(sv, cs, l, old) ==
    /\ nextID = sv.Bank.nextID
    /\ accts = sv.Bank.accts
    /\ clock = sv.Bank.clock
    /\ snap = old
    /\ snapOf = Nil
    /\ last = [call |-> Call("NewBank", <<>>), err |-> ErrNil, res |-> Nil]
    /\ issued = DOMAIN sv.Bank.accts
    /\ issuedNow = DOMAIN sv.Bank.accts
    /\ held = Nil
    /\ mu = {}
    /\ pc = [p \in DOMAIN cs |-> l]
    /\ call = cs
    /\ loc = [p \in DOMAIN cs |->
                 IF l = "start" THEN HandlerLoc
                 ELSE [HandlerLoc EXCEPT !.snap = cs[p].args[1]]]
    /\ out = [p \in DOMAIN cs |-> Nil]
    /\ lin = Nil
    /\ linOut = [p \in DOMAIN cs |-> Nil]
    /\ bank0 = sv.Bank
    /\ req = Nil
    /\ resp = Nil
    /\ persist = sv.persist
    /\ calls = sv.calls
    /\ fs = sv.fs

InitHandlers ==
    \E order \in AllOrders :
        \E cs \in [1..NHandlers -> HandlerRequests] :
            InitServer(ServerWithTwoAccounts(order), cs, "start",
                       SaveForm(Snapshot(TwoAccounts(1, 1), order).res, TimeAt(1)))

NextHandlers == \E p \in 1..NHandlers : Handler(p)

SpecHandlers == InitHandlers /\ [][NextHandlers]_vars

\* ------------------------------------------------------------------ SpecSave
\* NSavers goroutines call SaveSnapshot on the same path, each with a
\* snapshot of its own; the path holds a snapshot saved earlier, or nothing.

NSavers == 2

\* Snapshots of three ledgers: empty, one account, one account with a deposit.
SaveInputs ==
    LET b1 == Create(NewBank, <<"A">>, 1).b
        b2 == Deposit(b1, SprintfD(1), 1).b
    IN  {Snapshot(NewBank, <<>>).res,
         Snapshot(b1, <<SprintfD(1)>>).res,
         Snapshot(b2, <<SprintfD(1)>>).res}

\* A directory with no file, and one whose path holds the snapshot s.
Directories(s) == {NoFiles, SaveSnapshot(NoFiles, s, TimeAt(1)).f}

InitSave ==
    \E old \in SaveInputs :
        \E f \in Directories(old) :
            \E cs \in [1..NSavers -> {Call("SaveSnapshot", <<s>>) : s \in SaveInputs}] :
                InitServer([Bank |-> NewBank, persist |-> Nil, calls |-> 0, fs |-> f],
                           cs, "Save.create", SaveForm(old, TimeAt(1)))

Saver(p) ==
    \/ SaveCreate(p)
    \/ SaveEncode(p)
    \/ SaveEncodeFails(p)
    \/ SaveRename(p)

NextSave == \E p \in 1..NSavers : Saver(p)

SpecSave == InitSave /\ [][NextSave]_vars

\* SpecSave where a call starts only when no other call is under way.
NextSaveInTurn ==
    \E p \in 1..NSavers :
        \/ SaveCreate(p) /\ \A q \in DOMAIN pc : pc[q] \in {"Save.create", "done"}
        \/ SaveEncode(p)
        \/ SaveEncodeFails(p)
        \/ SaveRename(p)

SpecSaveInTurn == InitSave /\ [][NextSaveInTurn]_vars

\* ------------------------------------------------------------------ properties

Op == last.call.op
Args == last.call.args
Succeeded(op) == last.call.op = op /\ last.err = ErrNil

\* The sum of the balances of the accounts of a map, as integers.
RECURSIVE SumBalances(_, _)
SumBalances(ac, ids) ==
    IF ids = {} THEN 0
    ELSE LET id == CHOOSE x \in ids : TRUE
         IN  ac[id].Balance + SumBalances(ac, ids \ {id})

TotalBalance(ac) == SumBalances(ac, DOMAIN ac)

\* C1: in every state reachable by Create, Deposit, Withdraw, Transfer (and
\* Restore of a snapshot Snapshot produced), every account's balance is >= 0.
C1_BalanceNonNegative == \A id \in DOMAIN accts : accts[id].Balance >= 0

\* C2: a successful Transfer(a, b, amt) debits a by exactly amt, credits b by
\* exactly amt, leaves every other balance as it was, and so leaves the sum of
\* all balances as it was.
C2_TransferConserves ==
    [][Succeeded("Transfer")' =>
        LET a == Args'[1]
            b == Args'[2]
            amt == Args'[3]
        IN  /\ DOMAIN accts' = DOMAIN accts
            /\ accts'[a].Balance = accts[a].Balance - amt
            /\ accts'[b].Balance = accts[b].Balance + amt
            /\ \A id \in DOMAIN accts \ {a, b} : accts'[id].Balance = accts[id].Balance
            /\ TotalBalance(accts') = TotalBalance(accts)]_vars

\* C4: a call of Create, Get, Deposit, Withdraw, Transfer or Logs that returns
\* an error leaves the account set, every balance, every history and the
\* identifier counter as they were.
C4_ErrorChangesNothing ==
    [][(last'.err # ErrNil) => (accts' = accts /\ nextID' = nextID)]_vars

\* A Transfer has just failed on the balance check, with both accounts there.
C4_Witness ==
    /\ Op = "Transfer"
    /\ last.err = ErrInsufficient
    /\ Cardinality(DOMAIN accts) = 2
    /\ \E id \in DOMAIN accts : Len(accts[id].Logs) > 0

EntryOf(c, id) ==
    CASE c.op = "Deposit" /\ c.args[1] = id ->
            [Amount |-> c.args[2], Direction |-> "in",
             CounterID |-> EmptyString, Note |-> <<"deposit">>]
      [] c.op = "Withdraw" /\ c.args[1] = id ->
            [Amount |-> c.args[2], Direction |-> "out",
             CounterID |-> EmptyString, Note |-> <<"withdraw">>]
      [] c.op = "Transfer" /\ c.args[1] = id ->
            [Amount |-> c.args[3], Direction |-> "out",
             CounterID |-> c.args[2], Note |-> <<"transfer">>]
      [] c.op = "Transfer" /\ c.args[2] = id ->
            [Amount |-> c.args[3], Direction |-> "in",
             CounterID |-> c.args[1], Note |-> <<"transfer">>]
      [] OTHER -> Nil

\* A history entry without its timestamp.
Untimed(l) ==
    [Amount |-> l.Amount, Direction |-> l.Direction, CounterID |-> l.CounterID, Note |-> l.Note]

\* C8: each account's history is append-only and in the order of the calls:
\* every step leaves each history as it was, except that a successful
\* balance-changing call on the account adds exactly one entry, at the end,
\* which describes that call.
C8_HistoryAppendOnly ==
    [][\A id \in DOMAIN accts :
        /\ id \in DOMAIN accts'
        /\ LET old == accts[id].Logs
               new == accts'[id].Logs
               e == IF last'.err = ErrNil THEN EntryOf(last'.call, id) ELSE Nil
           IN  IF e = Nil THEN new = old
               ELSE /\ Len(new) = Len(old) + 1
                    /\ SubSeq(new, 1, Len(old)) = old
                    /\ Untimed(new[Len(new)]) = e]_vars

\* An account whose history holds two entries of different calls.
C8_Witness ==
    \E id \in DOMAIN accts :
        /\ Len(accts[id].Logs) = 2
        /\ accts[id].Logs[1].Note # accts[id].Logs[2].Note
        /\ Op \in {"Deposit", "Withdraw", "Transfer"}
        /\ last.err = ErrNil

\* Two history entries are the same entry: the same instant (Time.Equal),
\* amount, direction, counterparty and note.
SameEntry(l, m) == TimeEqual(l.Time, m.Time) /\ Untimed(l) = Untimed(m)

\* Two ledgers hold the same accounts, counter and histories.
SameLedger(b, c) ==
    /\ b.nextID = c.nextID
    /\ DOMAIN b.accts = DOMAIN c.accts
    /\ \A id \in DOMAIN b.accts :
        /\ b.accts[id].ID = c.accts[id].ID
        /\ b.accts[id].Name = c.accts[id].Name
        /\ b.accts[id].Balance = c.accts[id].Balance
        /\ Len(b.accts[id].Logs) = Len(c.accts[id].Logs)
        /\ \A i \in 1..Len(b.accts[id].Logs) :
              SameEntry(b.accts[id].Logs[i], c.accts[id].Logs[i])

\* C9: Restore(Snapshot()) applied to a fresh ledger yields the account set,
\* names, balances, identifier counter and histories (entry by entry, in
\* order, timestamps compared as instants) of the ledger the snapshot was
\* taken of.
C9_SnapshotRoundTrip ==
    (Op = "NewBank.Restore") => SameLedger(last.res, snapOf)

\* A fresh ledger has just been restored from a snapshot of two accounts with
\* histories.
C9_Witness ==
    /\ Op = "NewBank.Restore"
    /\ Cardinality(DOMAIN last.res.accts) = 2
    /\ \A id \in DOMAIN last.res.accts : Len(last.res.accts[id].Logs) > 0
    /\ \E id \in DOMAIN last.res.accts : last.res.accts[id].Logs[1].CounterID # EmptyString

AllDone == \A p \in Procs : pc[p] = "done"

\* C3: NTransfers transfers of 1 from "1" to "2" concurrent with NTransfers
\* transfers of 1 from "2" to "1", from balances (X, Y) with X >= NTransfers
\* and Y >= NTransfers: when all have returned, all have succeeded, the two
\* balances add up to X + Y and both are >= 0; and the balances a concurrent
\* List returned add up to X + Y.
C3_ConcurrentTransfers ==
    LET X == bank0.accts[SprintfD(1)].Balance
        Y == bank0.accts[SprintfD(2)].Balance
        A == accts[SprintfD(1)].Balance
        B == accts[SprintfD(2)].Balance
    IN  /\ AllDone =>
              /\ \A p \in TransferProcs : out[p].err = ErrNil
              /\ A + B = X + Y
              /\ A >= 0 /\ B >= 0
        /\ pc[ListProc] = "done" =>
              out[ListProc].res[1].Balance + out[ListProc].res[2].Balance = X + Y

\* C3 where no credit passes MaxInt64: the same property, from the balances
\* (X, Y) with X + NTransfers <= MaxInt64 and Y + NTransfers <= MaxInt64.
C3_WithoutOverflow ==
    (/\ bank0.accts[SprintfD(1)].Balance + NTransfers <= MaxInt64
     /\ bank0.accts[SprintfD(2)].Balance + NTransfers <= MaxInt64)
        => C3_ConcurrentTransfers

C3_WithoutOverflowWitness ==
    /\ AllDone
    /\ bank0.accts[SprintfD(1)].Balance = NTransfers
    /\ bank0.accts[SprintfD(2)].Balance = NTransfers
    /\ \A p \in TransferProcs : out[p].err = ErrNil
    /\ out[ListProc].res[1].Logs # <<>>

\* C5: every concurrent execution has a sequential one with the same results
\* and the same final state: each call that has returned has returned what the
\* same call returned in the sequential execution that makes the calls one
\* after the other in the order of the points where they took effect (a point
\* between the call's start and its return), and whenever the mutex is free
\* the ledger is the ledger of that sequential execution.
C5_Linearizable ==
    /\ \A p \in Procs : pc[p] = "done" => out[p] = linOut[p]
    /\ mu = {} => Bank = lin

\* A Get of the destination that returned the balance before a Transfer that
\* has returned too: the two calls overlapped or the Get came first.
C5_Witness ==
    /\ AllDone
    /\ call[1] = Call("Transfer", <<SprintfD(1), SprintfD(2), 1>>)
    /\ out[1].err = ErrNil
    /\ call[2] = Call("Get", <<SprintfD(2)>>)
    /\ out[2].err = ErrNil
    /\ out[2].res.Balance = bank0.accts[SprintfD(2)].Balance
    /\ accts[SprintfD(2)].Balance = Wrap64(bank0.accts[SprintfD(2)].Balance + 1)
    /\ Len(accts[SprintfD(2)].Logs) = 1

\* C6: NDeposits concurrent Deposit(id, amt) calls: when all have returned the
\* balance is the starting balance plus NDeposits * amt and the history has
\* grown by exactly NDeposits "in" entries; and the account a concurrent Get
\* returned has the starting balance plus amt for each entry of its history.
C6_NoLostDeposit ==
    LET id == SprintfD(1)
        amt == call[1].args[2]
        a0 == bank0.accts[id]
        a == accts[id]
        seen == out[GetProc].res
    IN  /\ AllDone =>
              /\ a.Balance = a0.Balance + NDeposits * amt
              /\ Len(a.Logs) = Len(a0.Logs) + NDeposits
              /\ \A i \in (Len(a0.Logs) + 1)..Len(a.Logs) :
                    a.Logs[i].Direction = "in" /\ a.Logs[i].Amount = amt
        /\ pc[GetProc] = "done" =>
              seen.Balance = a0.Balance + amt * (Len(seen.Logs) - Len(a0.Logs))

\* C6 where no credit passes MaxInt64: the same property, from a starting
\* balance with balance + NDeposits * amt <= MaxInt64.
C6_WithoutOverflow ==
    (bank0.accts[SprintfD(1)].Balance + NDeposits * call[1].args[2] <= MaxInt64)
        => C6_NoLostDeposit

C6_WithoutOverflowWitness ==
    /\ AllDone
    /\ bank0.accts[SprintfD(1)].Balance = 1
    /\ accts[SprintfD(1)].Balance = 1 + NDeposits * 2
    /\ Len(out[GetProc].res.Logs) = 1

\* C11: Transfer(from, to, amt) returns invalid amount if amt <= 0; otherwise
\* same account if from = to, whether or not the account exists; otherwise not
\* found if either account is absent; otherwise insufficient balance if
\* balance(from) < amt; otherwise nil. A transfer of exactly balance(from)
\* succeeds and leaves the source at 0.
C11_TransferPrecedence ==
    [][Op' = "Transfer" =>
        LET f == Args'[1]
            t == Args'[2]
            amt == Args'[3]
        IN  /\ last'.err =
                  (IF amt <= 0 THEN ErrBadAmount
                   ELSE IF f = t THEN ErrSameAccount
                   ELSE IF f \notin DOMAIN accts \/ t \notin DOMAIN accts THEN ErrNotFound
                   ELSE IF accts[f].Balance < amt THEN ErrInsufficient
                   ELSE ErrNil)
            /\ (amt > 0 /\ f # t /\ f \in DOMAIN accts /\ t \in DOMAIN accts
                    /\ accts[f].Balance = amt)
                  => (last'.err = ErrNil /\ accts'[f].Balance = 0)]_vars

\* A Transfer of the whole balance of the source has just succeeded.
C11_Witness ==
    /\ Succeeded("Transfer")
    /\ accts[Args[1]].Balance = 0
    /\ accts[Args[1]].Logs[Len(accts[Args[1]].Logs)].Amount = Args[3]

\* C12: Withdraw(id, amt) returns invalid amount if amt <= 0, otherwise not
\* found if the account is absent, otherwise insufficient balance if
\* balance < amt; otherwise it takes exactly amt off that account's balance,
\* appends exactly one entry (out, amt, note withdraw, no counterparty),
\* returns an account with the new balance, and changes no other account.
C12_Withdraw ==
    [][Op' = "Withdraw" =>
        LET id == Args'[1]
            amt == Args'[2]
        IN  /\ last'.err =
                  (IF amt <= 0 THEN ErrBadAmount
                   ELSE IF id \notin DOMAIN accts THEN ErrNotFound
                   ELSE IF accts[id].Balance < amt THEN ErrInsufficient
                   ELSE ErrNil)
            /\ last'.err = ErrNil =>
                  /\ DOMAIN accts' = DOMAIN accts
                  /\ accts'[id].Balance = accts[id].Balance - amt
                  /\ Len(accts'[id].Logs) = Len(accts[id].Logs) + 1
                  /\ SubSeq(accts'[id].Logs, 1, Len(accts[id].Logs)) = accts[id].Logs
                  /\ Untimed(accts'[id].Logs[Len(accts'[id].Logs)]) =
                        [Amount |-> amt, Direction |-> "out",
                         CounterID |-> EmptyString, Note |-> <<"withdraw">>]
                  /\ accts'[id].ID = accts[id].ID /\ accts'[id].Name = accts[id].Name
                  /\ last'.res.Balance = accts'[id].Balance
                  /\ last'.res.ID = id
                  /\ \A other \in DOMAIN accts \ {id} : accts'[other] = accts[other]]_vars

\* A Withdraw of the whole balance has just succeeded, with another account there.
C12_Witness ==
    /\ Succeeded("Withdraw")
    /\ Cardinality(DOMAIN accts) = 2
    /\ last.res.Balance = 0
    /\ accts[Args[1]].Balance = 0

\* What C13 says of one step of the ledger; credited(old, amt) says whether
\* the step is one the property speaks about.
C13_Step(credited(_, _)) ==
    /\ Op' = "Deposit" =>
        LET id == Args'[1]
            amt == Args'[2]
        IN  /\ last'.err =
                  (IF amt <= 0 THEN ErrBadAmount
                   ELSE IF id \notin DOMAIN accts THEN ErrNotFound
                   ELSE ErrNil)
            /\ (last'.err = ErrNil /\ credited(accts[id].Balance, amt)) =>
                  /\ accts'[id].Balance = accts[id].Balance + amt
                  /\ Len(accts'[id].Logs) = Len(accts[id].Logs) + 1
                  /\ SubSeq(accts'[id].Logs, 1, Len(accts[id].Logs)) = accts[id].Logs
                  /\ Untimed(accts'[id].Logs[Len(accts'[id].Logs)]) =
                        [Amount |-> amt, Direction |-> "in",
                         CounterID |-> EmptyString, Note |-> <<"deposit">>]
                  /\ last'.res.Balance = accts[id].Balance + amt
    /\ (Succeeded("Deposit") /\ Op' = "Get" /\ Args'[1] = Args[1]) =>
          (last'.err = ErrNil /\ last'.res.Balance = last.res.Balance)

AnyCredit(old, amt) == TRUE
CreditFits(old, amt) == old + amt <= MaxInt64

\* C13: Deposit(id, amt) returns invalid amount if amt <= 0, otherwise not
\* found if the account is absent; otherwise it adds exactly amt to that
\* account's balance, appends exactly one entry (in, amt, note deposit, no
\* counterparty) and returns the old balance plus amt; a Get(id) made next
\* returns the same balance.
C13_Deposit == [][C13_Step(AnyCredit)]_vars

\* C13 where the credit does not pass MaxInt64.
C13_WithoutOverflow == [][C13_Step(CreditFits)]_vars

\* C14: Create(name, bal) returns invalid amount exactly when bal < 0 and
\* otherwise succeeds: it adds exactly one account, with the given name,
\* balance bal and an empty history, under an identifier no account held, and
\* leaves every account that was there as it was.
C14_Create ==
    [][Op' = "Create" =>
        LET name == Args'[1]
            bal == Args'[2]
        IN  /\ last'.err = (IF bal < 0 THEN ErrBadAmount ELSE ErrNil)
            /\ last'.err = ErrNil =>
                  LET id == last'.res.ID
                  IN  /\ id \notin DOMAIN accts
                      /\ DOMAIN accts' = (DOMAIN accts) \cup {id}
                      /\ Cardinality(DOMAIN accts') = Cardinality(DOMAIN accts) + 1
                      /\ accts'[id] = [ID |-> id, Name |-> name, Balance |-> bal,
                                       Logs |-> <<>>]
                      /\ last'.res = accts'[id]
                      /\ \A old \in DOMAIN accts : accts'[old] = accts[old]]_vars

\* A Create with balance 0 has just added a second account, to one that has a
\* history.
C14_Witness ==
    /\ Succeeded("Create")
    /\ Args[2] = 0
    /\ Cardinality(DOMAIN accts) = 2
    /\ \E id \in DOMAIN accts : Len(accts[id].Logs) > 0

\* What the caller holds is detached from the ledger in this step: a write of
\* the caller to it leaves the ledger's accounts as they were, and a call on
\* the ledger leaves it as the caller read it before.
DetachedStep ==
    /\ Op' = "write" => accts' = accts
    /\ Op' # "write" => held'.val = held.val

\* C15: every Account returned by Create, Get, List, Deposit and Withdraw is
\* detached from the ledger: a later write of the caller to its balance or to
\* its history entries changes nothing the ledger holds (so nothing a later
\* Get, List, Logs or Snapshot returns), and later calls on the ledger do not
\* change it.
C15_Detached ==
    [][(held # Nil /\ held.op \in {"Create", "Get", "List", "Deposit", "Withdraw"})
          => DetachedStep]_vars

\* C15 for the fields that cp := *a copies: of an Account returned by Get,
\* List, Deposit or Withdraw, a write to the balance changes nothing the
\* ledger holds, and later calls on the ledger do not change the value.
C15_CopiedFields ==
    [][(held # Nil /\ held.op \in {"Get", "List", "Deposit", "Withdraw"}
           /\ last'.call # Call("write", <<"Logs", 1, 0>>)
           /\ last'.call # Call("write", <<"Logs", 2, 0>>))
          => DetachedStep]_vars

\* The caller has just written to the balance of an Account Get returned, and
\* the ledger still has the balance it had.
C15_CopiedFieldsWitness ==
    /\ held # Nil
    /\ held.op = "Get"
    /\ Op = "write"
    /\ held.val.Balance = 0
    /\ accts[held.id].Balance = MaxInt64

\* C16: the history Logs(id) returns is the account's full history at the
\* call, and Snapshot returns the counter and every account with its full
\* history; both are copies: a later write of the caller to an entry changes
\* nothing the ledger holds, and later calls on the ledger, appends included,
\* do not change what was returned.
C16_IndependentCopies ==
    [][/\ (Op' = "Logs" /\ last'.err = ErrNil) => last'.res = accts[Args'[1]].Logs
       /\ Op' = "Snapshot" =>
             /\ last'.res.NextID = nextID
             /\ {last'.res.Accounts[i].ID : i \in DOMAIN last'.res.Accounts} = DOMAIN accts
             /\ Len(last'.res.Accounts) = Cardinality(DOMAIN accts)
             /\ \A i \in DOMAIN last'.res.Accounts :
                   last'.res.Accounts[i].Logs = accts[last'.res.Accounts[i].ID].Logs
       /\ (held # Nil /\ held.op \in {"Logs", "Snapshot"}) => DetachedStep]_vars

\* The caller has written to an entry of a history Logs returned, after the
\* ledger appended to that history: the ledger's entry is as it was.
C16_Witness ==
    /\ held # Nil
    /\ held.op = "Logs"
    /\ Op = "write"
    /\ Len(held.val.Logs) = 1
    /\ Len(accts[held.id].Logs) = 2
    /\ held.val.Logs[1].Amount = 0
    /\ accts[held.id].Logs[1].Amount = MaxInt64

\* The sum of the balances of a sequence of account records, as integers.
RECURSIVE SumRecords(_)
SumRecords(recs) ==
    IF recs = <<>> THEN 0 ELSE Head(recs).Balance + SumRecords(Tail(recs))

\* The account records a List or a Snapshot returned.
RecordsOf(p) == IF call[p].op = "List" THEN out[p].res ELSE out[p].res.Accounts

\* Every "transfer" entry in the records has its other side in them: the
\* counterparty's record holds the entry of the same instant and amount in the
\* opposite direction.
BothSides(recs) ==
    \A i \in DOMAIN recs : \A k \in DOMAIN recs[i].Logs :
        LET e == recs[i].Logs[k]
        IN  e.Note = <<"transfer">> =>
              \E j \in DOMAIN recs : \E m \in DOMAIN recs[j].Logs :
                  /\ recs[j].ID = e.CounterID
                  /\ recs[j].Logs[m].CounterID = recs[i].ID
                  /\ recs[j].Logs[m].Time = e.Time
                  /\ recs[j].Logs[m].Amount = e.Amount
                  /\ recs[j].Logs[m].Direction # e.Direction

Observers == {p \in Procs : call[p].op \in {"List", "Snapshot"} /\ pc[p] = "done"}

\* What a List or Snapshot returned is what the same call returns in the
\* sequential execution, where it reads the ledger between two calls.
OneInstant(p) == out[p] = linOut[p]

\* C17: a List or Snapshot made while Transfers run reflects one instant: its
\* account set, balances, histories and counter are those of the ledger
\* between two serialized calls; the balances in it add up to the total the
\* ledger started with, and it holds no side of a transfer without the other.
C17_ConsistentInstant ==
    \A p \in Observers :
        /\ OneInstant(p)
        /\ BothSides(RecordsOf(p))
        /\ SumRecords(RecordsOf(p)) = TotalBalance(bank0.accts)

\* C17 where no credit passes MaxInt64.
C17_WithoutOverflow ==
    (\A id \in DOMAIN bank0.accts : bank0.accts[id].Balance + 1 <= MaxInt64)
        => C17_ConsistentInstant

\* A Snapshot that holds the first transfer and not the second, and a List
\* that holds both.
C17_WithoutOverflowWitness ==
    /\ AllDone
    /\ \A id \in DOMAIN bank0.accts : bank0.accts[id].Balance = 1
    /\ \A i \in DOMAIN out[4].res.Accounts : Len(out[4].res.Accounts[i].Logs) = 1
    /\ \A i \in DOMAIN out[3].res : Len(out[3].res[i].Logs) = 2
    /\ \E i \in DOMAIN out[4].res.Accounts : out[4].res.Accounts[i].Balance = 2

\* The ledger after the step.
BankAfter == BankState(nextID', accts', clock')

\* C18: Restore(s) replaces the whole state: afterwards the counter is s's
\* counter, the accounts are exactly the records of s, with their names,
\* balances and histories (entry by entry, timestamps compared as instants),
\* and Get and Logs report every account that was there before and is not in
\* s as not found.
C18_RestoreReplaces ==
    [][Op' = "Restore" =>
        LET s == Args'[1]
        IN  /\ nextID' = s.NextID
            /\ DOMAIN accts' = {s.Accounts[i].ID : i \in DOMAIN s.Accounts}
            /\ \A i \in DOMAIN s.Accounts :
                  LET pa == s.Accounts[i]
                      a == accts'[pa.ID]
                  IN  /\ a.ID = pa.ID /\ a.Name = pa.Name /\ a.Balance = pa.Balance
                      /\ Len(a.Logs) = Len(pa.Logs)
                      /\ \A k \in DOMAIN pa.Logs : SameEntry(a.Logs[k], pa.Logs[k])
            /\ \A id \in DOMAIN accts :
                  id \notin {s.Accounts[i].ID : i \in DOMAIN s.Accounts} =>
                      /\ Get(BankAfter, id).err = ErrNotFound
                      /\ Logs(BankAfter, id).err = ErrNotFound]_vars

\* A Restore has just discarded an account and brought back the history of
\* another as it was in the snapshot.
C18_Witness ==
    /\ Op = "Restore"
    /\ Cardinality(DOMAIN accts) = 1
    /\ issuedNow = {}
    /\ Cardinality(issued) = 2
    /\ \A id \in DOMAIN accts : Len(accts[id].Logs) = 1 /\ Len(snapOf.accts[id].Logs) = 1
    /\ clock > 2

NoCallInProgress == \A p \in Procs : pc[p] \in {"start", "done"}

\* C20: no call deadlocks or keeps the mutex: under fair scheduling every
\* call, whatever it is and whatever runs beside it, returns, and the mutex is
\* free whenever no call is in progress.
C20_EveryCallReturns ==
    /\ [](NoCallInProgress => mu = {})
    /\ \A p \in 1..NProcs : <>(pc[p] = "done")

\* A Transfer from "1" to "2" and a Transfer from "2" to "1" have both
\* returned without error, and the mutex is free.
C20_Witness ==
    /\ AllDone
    /\ mu = {}
    /\ call[1] = Call("Transfer", <<SprintfD(1), SprintfD(2), 1>>)
    /\ call[2] = Call("Transfer", <<SprintfD(2), SprintfD(1), 1>>)
    /\ out[1].err = ErrNil
    /\ out[2].err = ErrNil

\* ------------------------------------------------------------------ C24

\* An entry of the history of owner, in the ledger ac, is well formed.
WellFormedEntry(ac, owner, l) ==
    /\ l.Amount > 0
    /\ l.Direction \in {"in", "out"}
    /\ (l.CounterID # EmptyString) <=> (l.Note = <<"transfer">>)
    /\ l.Note = <<"transfer">> =>
          (l.CounterID \in DOMAIN ac /\ l.CounterID # owner)

\* C24: in every state reachable by Create, Deposit, Withdraw and Transfer,
\* every history entry has amount > 0 and direction in or out; its
\* counterparty is set exactly when its note is transfer, and then names an
\* account of the ledger other than the history's owner.
C24_EntriesWellFormed ==
    \A id \in DOMAIN accts :
        \A i \in 1..Len(accts[id].Logs) : WellFormedEntry(accts, id, accts[id].Logs[i])

\* Account "1" holds a deposit entry followed by a transfer entry, and
\* account "2" holds the other side of that transfer.
C24_Witness ==
    /\ DOMAIN accts = {SprintfD(1), SprintfD(2)}
    /\ Len(accts[SprintfD(1)].Logs) = 2
    /\ accts[SprintfD(1)].Logs[1].Note = <<"deposit">>
    /\ accts[SprintfD(1)].Logs[2].Note = <<"transfer">>
    /\ accts[SprintfD(1)].Logs[2].CounterID = SprintfD(2)
    /\ Len(accts[SprintfD(2)].Logs) = 1
    /\ accts[SprintfD(2)].Logs[1].CounterID = SprintfD(1)

\* ------------------------------------------------------------------ C25

\* The sum of the "in" amounts of a history minus the sum of its "out"
\* amounts, as an integer.
RECURSIVE NetOfLogs(_)
NetOfLogs(logs) ==
    IF logs = <<>> THEN 0
    ELSE LET l == logs[Len(logs)]
         IN  NetOfLogs(SubSeq(logs, 1, Len(logs) - 1))
                 + (IF l.Direction = "in" THEN l.Amount ELSE 0 - l.Amount)

\* The step credits no account past MaxInt64.
CreditFitsStep ==
    /\ Succeeded("Deposit")' => CreditFits(accts[Args'[1]].Balance, Args'[2])
    /\ Succeeded("Transfer")' => CreditFits(accts[Args'[2]].Balance, Args'[3])

\* The step keeps balance and history reconciled: a new account starts with
\* the balance given to Create and an empty history, and for every other
\* account the balance moves by what the new entries of its history say.
ReconciledStep ==
    \A id \in DOMAIN accts' :
        IF id \in DOMAIN accts
        THEN accts'[id].Balance - NetOfLogs(accts'[id].Logs) =
                 accts[id].Balance - NetOfLogs(accts[id].Logs)
        ELSE /\ Succeeded("Create")'
             /\ accts'[id].Balance = Args'[2]
             /\ accts'[id].Logs = <<>>

\* C25: balance and history stay reconciled: in every state reachable by
\* Create, Deposit, Withdraw and Transfer, each account's balance equals its
\* initial balance at Create plus the sum of the amounts of its "in" entries
\* minus the sum of the amounts of its "out" entries.
C25_Reconciled == [][ReconciledStep]_vars

\* C25 for concurrent deposits: whenever the mutex is free, each account's
\* balance is the balance it was created with plus what its history says.
C25_ReconciledConcurrent ==
    mu = {} =>
        \A id \in DOMAIN accts :
            accts[id].Balance = bank0.accts[id].Balance + NetOfLogs(accts[id].Logs)

\* C25 where no credit passes MaxInt64.
C25_WithoutOverflow == [][CreditFitsStep => ReconciledStep]_vars

\* An account has been credited and debited, and its balance is what it was
\* created with plus its history.
C25_WithoutOverflowWitness ==
    \E id \in DOMAIN accts :
        /\ Len(accts[id].Logs) = 2
        /\ accts[id].Logs[1].Direction = "in"
        /\ accts[id].Logs[2].Direction = "out"
        /\ accts[id].Balance = 1 + NetOfLogs(accts[id].Logs)

\* ------------------------------------------------------------------ C26

\* C26: with balances held as signed 64-bit integers, crediting never wraps
\* around: a successful Deposit leaves the account's balance strictly greater
\* than before, and a successful Transfer leaves the destination's balance
\* strictly greater than before.
C26_CreditNeverWraps ==
    [][/\ Succeeded("Deposit")' =>
              accts'[Args'[1]].Balance > accts[Args'[1]].Balance
       /\ Succeeded("Transfer")' =>
              accts'[Args'[2]].Balance > accts[Args'[2]].Balance]_vars

\* C26 where the credit does not pass MaxInt64.
C26_WithoutOverflow ==
    [][CreditFitsStep =>
          /\ Succeeded("Deposit")' =>
                 accts'[Args'[1]].Balance > accts[Args'[1]].Balance
          /\ Succeeded("Transfer")' =>
                 accts'[Args'[2]].Balance > accts[Args'[2]].Balance]_vars

\* ------------------------------------------------------------------ C21

\* The request asks for a change of the ledger: create account, deposit,
\* withdraw or transfer.
StateChanging(r) ==
    \/ r.route = "/accounts" /\ r.method = "POST"
    \/ /\ r.route = "/accounts/"
       /\ r.method = "POST"
       /\ Len(r.parts) = 2
       /\ r.parts[2] \in {"deposit", "withdraw"}
    \/ r.route = "/transfer" /\ r.method = "POST"

Successful(r) == r.code \in {StatusOK, StatusCreated}

\* C21: the HTTP layer invokes the persist hook exactly once for every
\* successful state-changing request (create account, deposit, withdraw,
\* transfer) and never for a request that failed or for a read-only request
\* (list, get, logs, health).
C21_PersistOncePerChange ==
    [][persist # Nil =>
          calls' = calls + (IF StateChanging(req') /\ Successful(resp') THEN 1 ELSE 0)]_vars

\* The hook has been invoked for two creations and a deposit, and not for the
\* withdrawal that then failed.
C21_Witness ==
    /\ req # Nil
    /\ persist = Hook
    /\ calls = 3
    /\ Cardinality(DOMAIN accts) = 2
    /\ req.route = "/accounts/"
    /\ req.method = "POST"
    /\ req.parts = <<SprintfD(1), "withdraw">>
    /\ resp.code = StatusBadRequest

\* ------------------------------------------------------------------ C22

DomainErrors == {ErrNotFound, ErrBadAmount, ErrSameAccount, ErrInsufficient}

\* The response carries the text of a domain error.
DomainError(r) == r.ctype = "text/plain" /\ r.body \in DomainErrors

\* The status code documented for a domain error.
DocumentedCode(err) ==
    CASE err = ErrNotFound -> StatusNotFound
      [] err = ErrBadAmount -> StatusBadRequest
      [] err = ErrSameAccount -> StatusBadRequest
      [] err = ErrInsufficient -> StatusConflict

\* C22: on every HTTP endpoint, each domain error kind is mapped to its
\* documented status code: account not found -> 404, invalid amount -> 400,
\* same account -> 400, insufficient balance (on withdraw as well as on
\* transfer) -> 409.
C22_StatusMapping ==
    (resp # Nil /\ DomainError(resp)) => resp.code = DocumentedCode(resp.body)

\* The codes the handlers do give: 404 for any error of GET /accounts/{id} and
\* GET /accounts/{id}/logs, 409 for insufficient balance on /transfer, and
\* 400 for every other domain error.
C22_CodesGiven ==
    (resp # Nil /\ DomainError(resp)) =>
        resp.code =
            (IF req.route = "/accounts/" /\ req.method = "GET" THEN StatusNotFound
             ELSE IF req.route = "/transfer" /\ resp.body = ErrInsufficient
                  THEN StatusConflict
             ELSE StatusBadRequest)

\* A withdrawal has been refused for insufficient balance.
C22_CodesGivenWitness ==
    /\ req # Nil
    /\ resp # Nil
    /\ DomainError(resp)
    /\ resp.body = ErrInsufficient
    /\ req.route = "/accounts/"
    /\ Len(req.parts) = 2
    /\ req.parts[2] = "withdraw"

\* ------------------------------------------------------------------ C23

\* The content is the whole text of the snapshot the path held at the start,
\* or of a snapshot some SaveSnapshot call was given.
CompleteSnapshot(content) ==
    \/ content = EncodeSnapshot(snap)
    \/ \E p \in DOMAIN call :
          content = EncodeSnapshot(SaveForm(call[p].args[1], TimeAt(clock)))

\* C23: SaveSnapshot writes atomically: at every moment the file at the
\* target path is either absent, the previous complete snapshot, or a
\* complete snapshot that was passed to some SaveSnapshot call, never a
\* partially written or mixed one; also when a write is interrupted midway
\* and when several SaveSnapshot calls on the same path run concurrently.
C23_AtomicWrite == fs.path # NoFile => CompleteSnapshot(fs.node[fs.path])

\* C23 for calls that run one after another, interrupted or not.
C23_InTurn == (fs.path = NoFile) \/ CompleteSnapshot(fs.node[fs.path])

\* A call's write has stopped midway, leaving part of a text under the
\* temporary name, and the call after it has put its snapshot at the path.
C23_InTurnWitness ==
    /\ out[1] = [err |-> ErrShortWrite]
    /\ out[2] = [err |-> ErrNil]
    /\ fs.path # NoFile
    /\ fs.node[fs.path] = EncodeSnapshot(SaveForm(call[2].args[1], TimeAt(clock)))
    /\ call[1] # call[2]

\* ------------------------------------------------------------------ C27

\* The data file holds the text of a snapshot of the ledger as it is now.
FileIsLedger ==
    /\ fs.path # NoFile
    /\ \E order \in Orders(accts), t \in 1..clock :
          fs.node[fs.path] = EncodeSnapshot(SaveForm(Snapshot(Bank, order).res, TimeAt(t)))

\* C27: the persisted snapshot never falls behind: once all concurrent
\* state-changing requests and their persist calls have completed, the
\* snapshot last written to the data file equals the ledger's current state;
\* a snapshot taken earlier is never written over one taken later.
C27_NeverBehind == AllDone => FileIsLedger

\* C27 for requests served one after another: once the hook has run, the data
\* file holds the ledger as it is.
C27_OneAtATime == (persist # Nil /\ calls > 0) => FileIsLedger

\* Two accounts were created and a deposit made, each followed by the hook.
C27_OneAtATimeWitness ==
    /\ persist # Nil
    /\ calls = 3
    /\ Cardinality(DOMAIN accts) = 2
    /\ \E id \in DOMAIN accts : Len(accts[id].Logs) = 1
    /\ FileIsLedger

\* ------------------------------------------------------------------ C28

\* C28: the "from" and "to" accounts in a successful HTTP transfer response
\* show the two balances as they were at one instant right after that
\* transfer took effect: their sum equals the two accounts' combined balance
\* just before the transfer, even when other deposits, withdrawals or
\* transfers on those accounts run concurrently.
C28_OneInstant ==
    \A p \in DOMAIN call :
        (IsTransfer(call[p]) /\ out[p] # Nil /\ out[p].code = StatusOK) =>
            out[p].body.from.Balance + out[p].body.to.Balance = loc[p].before

\* C28 for requests served one after another.
C28_OneAtATime ==
    [][(req'.route = "/transfer" /\ resp'.code = StatusOK /\ req' # req) =>
          resp'.body.from.Balance + resp'.body.to.Balance =
              accts[req'.body[1]].Balance + accts[req'.body[2]].Balance]_vars

\* A transfer of 1 from "1" to "2" has been answered with balances 0 and 1.
C28_OneAtATimeWitness ==
    /\ req # Nil
    /\ req.route = "/transfer"
    /\ resp.code = StatusOK
    /\ resp.body.from.Balance = 0
    /\ resp.body.to.Balance = 1

====
